---- MODULE Spec2Model ----
(***************************************************************************)
(* Materialization engine of c3cli: DotfilesManager (symlink installer),   *)
(* TemplatesManager (file copier, conflict detector), ProjectFile          *)
(* (integrity verifier) and the status command (link status inspector),    *)
(* over an explicit model of a POSIX file tree with symbolic links.        *)
(***************************************************************************)
EXTENDS Integers, Sequences, FiniteSets, TLC

VARIABLES tpl, fs, pre, call, ret, ncalls, repo, clock, log, copied, procs

vars == <<tpl, fs, pre, call, ret, ncalls, repo, clock, log, copied, procs>>

(***************************************************************************)
(* Bounds                                                                  *)
(***************************************************************************)
\* number of library / command calls made in one behaviour
MaxCalls == 1
\* longest chain of symbolic links followed before ELOOP
MaxHops == 3
\* number of discovery calls made in one behaviour
MaxScans == 2

(***************************************************************************)
(* Paths.  A path is the sequence of its components.                       *)
(***************************************************************************)
repository_path == <<"repo">>
user_home == <<"home">>
target_directory == <<"work">>
ExtRoot == <<"ext">>

TemplateName == "T"
FileA == <<"a">>
FileB == <<"d", "b">>
RelFiles == {FileA, FileB}
\* a relative path that leaves its base directory
FileUp == <<"..", "x">>

Parent(p) == SubSeq(p, 1, Len(p) - 1)
Name(p) == p[Len(p)]
Prefixes(p) == {SubSeq(p, 1, n) : n \in 1..Len(p)}
IsUnder(q, p) == Len(q) >= Len(p) /\ SubSeq(q, 1, Len(p)) = p

ExtFile == ExtRoot \o <<"f">>
ExtDir == ExtRoot \o <<"dir">>
ExtGone == ExtRoot \o <<"gone">>

Leaves ==
  {repository_path \o <<k, TemplateName>> \o f : k \in {"dotfiles", "projects"}, f \in RelFiles}
  \cup {b \o f \o <<Name(f)>> : b \in {user_home, target_directory}, f \in RelFiles}
  \cup {ExtFile, ExtGone, ExtDir \o <<"a">>, ExtDir \o <<"b", "b">>}
  \cup {repository_path \o <<k, TemplateName, "install.sh">> : k \in {"dotfiles", "projects"}}
  \cup {target_directory \o <<"install.sh">>}
  \cup {<<"x", "x">>, repository_path \o <<"dotfiles", "x">>, repository_path \o <<"projects", "x">>}

Paths == UNION {Prefixes(p) : p \in Leaves}

(***************************************************************************)
(* Directory entries                                                       *)
(***************************************************************************)
NoEntry == [k |-> "none", data |-> "", meta |-> "", dest |-> <<>>]
DirEntry == [k |-> "dir", data |-> "", meta |-> "", dest |-> <<>>]
FileEntry(d, m) == [k |-> "file", data |-> d, meta |-> m, dest |-> <<>>]
LinkEntry(p) == [k |-> "link", data |-> "", meta |-> "", dest |-> p]

\* contents and metadata of the files of the initial tree
DataOf(f) == IF f = FileA THEN "content of a" ELSE "content of d/b"
ModeOf(f) == IF f = FileA THEN "0644" ELSE "0755"
OldData == "old content"
OldMode == "0600"
ExtData == "external content"

(***************************************************************************)
(* Path resolution (lstat / stat)                                          *)
(***************************************************************************)
ResErr == [ok |-> FALSE, p |-> <<>>]

RECURSIVE Walk(_, _, _, _, _)
\* Resolve rest below directory cur; the last component is followed only
\* when followLast.  ok with p naming an absent entry means "parent exists,
\* entry does not".
Walk(f, cur, rest, followLast, hops) ==
  IF rest = <<>> THEN [ok |-> TRUE, p |-> cur]
  ELSE IF Head(rest) = ".." THEN Walk(f, Parent(cur), Tail(rest), followLast, hops)
  ELSE LET q == Append(cur, Head(rest))
           last == Len(rest) = 1
       IN IF q \notin Paths THEN (IF last THEN [ok |-> TRUE, p |-> q] ELSE ResErr)
          ELSE CASE f[q].k = "dir" -> Walk(f, q, Tail(rest), followLast, hops)
                 [] f[q].k = "file" -> IF last THEN [ok |-> TRUE, p |-> q] ELSE ResErr
                 [] f[q].k = "none" -> IF last THEN [ok |-> TRUE, p |-> q] ELSE ResErr
                 [] f[q].k = "link" ->
                      IF last /\ ~followLast THEN [ok |-> TRUE, p |-> q]
                      ELSE IF hops = 0 THEN ResErr
                      ELSE Walk(f, <<>>, f[q].dest \o Tail(rest), followLast, hops - 1)

Stat(f, p) == Walk(f, <<>>, p, TRUE, MaxHops)
LStat(f, p) == Walk(f, <<>>, p, FALSE, MaxHops)

\* the root directory is always there
EntryAt(f, r) ==
  IF r.ok /\ r.p \in Paths THEN f[r.p]
  ELSE IF r.ok /\ r.p = <<>> THEN DirEntry
  ELSE NoEntry

\* pathlib.Path.exists / is_file / is_dir / is_symlink
Exists(f, p) == EntryAt(f, Stat(f, p)).k # "none"
IsFile(f, p) == EntryAt(f, Stat(f, p)).k = "file"
IsDir(f, p) == EntryAt(f, Stat(f, p)).k = "dir"
IsSymlink(f, p) == EntryAt(f, LStat(f, p)).k = "link"
\* os.path.lexists
LExists(f, p) == EntryAt(f, LStat(f, p)).k # "none"

\* pathlib.Path.resolve(): the canonical path, symlinks followed
Resolve(f, p) == LET r == Stat(f, p) IN IF r.ok THEN r.p ELSE p

(***************************************************************************)
(* Mutating file operations.  Each yields [ok, fs]: ok = FALSE is a raised *)
(* OSError, and fs is the tree the call leaves behind.                     *)
(***************************************************************************)
\* an entry would have to be made outside the modelled tree
OutOfTree(f) == [ok |-> FALSE, fs |-> f]

RECURSIVE MkdirWalk(_, _, _, _)
MkdirWalk(f, cur, rest, orig) ==
  IF rest = <<>> THEN [ok |-> TRUE, fs |-> f]
  ELSE IF Head(rest) = ".." THEN MkdirWalk(f, Parent(cur), Tail(rest), orig)
  ELSE LET q == Append(cur, Head(rest))
       IN IF q \notin Paths THEN OutOfTree(orig)
          ELSE CASE f[q].k = "none" -> MkdirWalk([f EXCEPT ![q] = DirEntry], q, Tail(rest), orig)
                 [] f[q].k = "dir" -> MkdirWalk(f, q, Tail(rest), orig)
                 [] f[q].k = "file" -> [ok |-> FALSE, fs |-> orig]
                 [] f[q].k = "link" ->
                      IF IsDir(f, q) THEN MkdirWalk(f, Resolve(f, q), Tail(rest), orig)
                      ELSE [ok |-> FALSE, fs |-> orig]

\* pathlib.Path.mkdir(parents=True, exist_ok=True)
MkdirP(f, p) == MkdirWalk(f, <<>>, p, f)

\* pathlib.Path.unlink()
Unlink(f, p) ==
  LET r == LStat(f, p)
  IN IF r.ok /\ EntryAt(f, r).k \in {"file", "link"}
     THEN [ok |-> TRUE, fs |-> [f EXCEPT ![r.p] = NoEntry]]
     ELSE [ok |-> FALSE, fs |-> f]

\* shutil.rmtree(): refuses a symbolic link, removes a directory and all below it
RmTree(f, p) ==
  LET r == LStat(f, p)
  IN IF r.ok /\ EntryAt(f, r).k = "dir"
     THEN [ok |-> TRUE, fs |-> [q \in Paths |-> IF IsUnder(q, r.p) THEN NoEntry ELSE f[q]]]
     ELSE [ok |-> FALSE, fs |-> f]

\* pathlib.Path.symlink_to(): os.symlink(src, p)
SymlinkTo(f, p, src) ==
  LET r == LStat(f, p)
  IN IF ~r.ok \/ EntryAt(f, r).k # "none" THEN [ok |-> FALSE, fs |-> f]
     ELSE IF r.p \notin Paths THEN OutOfTree(f)
     ELSE [ok |-> TRUE, fs |-> [f EXCEPT ![r.p] = LinkEntry(src)]]

\* shutil.copy2(src, dst): content and metadata, symlinks followed on both sides
Copy2(f, src, dst) ==
  LET Write(rs, rd) ==
        IF EntryAt(f, rs).k # "none" /\ EntryAt(f, rd).k # "none" /\ rs.p = rd.p
        THEN [ok |-> FALSE, fs |-> f]
        ELSE IF EntryAt(f, rs).k # "file" THEN [ok |-> FALSE, fs |-> f]
        ELSE IF ~rd.ok \/ EntryAt(f, rd).k = "dir" THEN [ok |-> FALSE, fs |-> f]
        ELSE IF rd.p \notin Paths THEN OutOfTree(f)
        ELSE [ok |-> TRUE,
              fs |-> [f EXCEPT ![rd.p] = FileEntry(EntryAt(f, rs).data, EntryAt(f, rs).meta)]]
  IN Write(Stat(f, src), Stat(f, IF IsDir(f, dst) THEN Append(dst, Name(src)) ELSE dst))

\* hashlib.sha256 of a content: one digest per content
Sha256(d) == <<"sha256", d>>

\* ProjectFile.calculate_checksum: ok = FALSE is the RuntimeError
calculate_checksum(f, p) ==
  LET e == EntryAt(f, Stat(f, p))
  IN IF e.k = "file" THEN [ok |-> TRUE, sum |-> Sha256(e.data)]
     ELSE [ok |-> FALSE, sum |-> <<>>]

(***************************************************************************)
(* Template (models/template.py)                                           *)
(***************************************************************************)
is_dotfiles_template(t) == t.type = "dotfiles"
is_project_template(t) == t.type = "project"

(***************************************************************************)
(* DotfileLink (models/dotfile_link.py)                                    *)
(***************************************************************************)
DotfileLink(source, target, name) == [source |-> source, target |-> target, template_name |-> name]

DotfileLink_exists(f, link) == Exists(f, link.target) \/ IsSymlink(f, link.target)

is_broken(f, link) == IsSymlink(f, link.target) /\ ~Exists(f, link.target)

points_to_source(f, link) ==
  IF ~IsSymlink(f, link.target) THEN FALSE
  ELSE Resolve(f, link.target) = Resolve(f, link.source)

\* DotfileLink.verify_link: the value returned
verify_link(f, link) ==
  IF ~DotfileLink_exists(f, link) THEN FALSE
  ELSE IF ~IsSymlink(f, link.target) THEN FALSE
  ELSE IF is_broken(f, link) THEN FALSE
  ELSE points_to_source(f, link)

\* os.access(path, os.W_OK): the model has no permission bits, every
\* existing entry is writable
os_access(f, p) == Exists(f, p)

\* yields [can, fs]: the pre-check creates the missing parent directory
can_create_symlink(f, link) ==
  LET Writable(m) ==
        IF ~m.ok THEN [can |-> FALSE, fs |-> m.fs]
        ELSE IF ~os_access(m.fs, Parent(link.target)) THEN [can |-> FALSE, fs |-> m.fs]
        ELSE [can |-> TRUE, fs |-> m.fs]
  IN IF DotfileLink_exists(f, link) /\ ~IsSymlink(f, link.target) THEN [can |-> FALSE, fs |-> f]
     ELSE IF ~Exists(f, link.source) THEN [can |-> FALSE, fs |-> f]
     ELSE Writable(IF ~Exists(f, Parent(link.target))
                   THEN MkdirP(f, Parent(link.target))
                   ELSE [ok |-> TRUE, fs |-> f])

(***************************************************************************)
(* DotfilesManager (lib/dotfiles.py)                                       *)
(***************************************************************************)
\* RemoveExisting without its directory branch: a directory at the target
\* is left in place
RemoveExisting_no_rmtree(f, target) ==
  IF IsSymlink(f, target) THEN Unlink(f, target)
  ELSE IF IsFile(f, target) THEN Unlink(f, target)
  ELSE [ok |-> TRUE, fs |-> f]

\* a removal that follows a symbolic link at the target: what the link
\* resolves to is removed with it
RemoveExisting_following(f, target) ==
  LET Link(r) == Unlink(r.fs, target)
  IN IF IsSymlink(f, target)
     THEN Link(IF IsDir(f, target) THEN RmTree(f, Resolve(f, target))
               ELSE Unlink(f, Resolve(f, target)))
     ELSE IF IsFile(f, target) THEN Unlink(f, target)
     ELSE IF IsDir(f, target) THEN RmTree(f, target)
     ELSE [ok |-> TRUE, fs |-> f]

\* removal of the pre-existing target under force
RemoveExisting(f, target) ==
  IF IsSymlink(f, target) THEN Unlink(f, target)
  ELSE IF IsFile(f, target) THEN Unlink(f, target)
  ELSE IF IsDir(f, target) THEN RmTree(f, target)
  ELSE [ok |-> TRUE, fs |-> f]

\* the parent directory is made and the link is created: [ok, fs]
MakeLink(f, link) ==
  LET Made(s) == [ok |-> s.ok, fs |-> s.fs]
      Link(m) == IF ~m.ok THEN [ok |-> FALSE, fs |-> m.fs]
                 ELSE Made(SymlinkTo(m.fs, link.target, link.source))
  IN Link(MkdirP(f, Parent(link.target)))

\* _create_single_symlink that takes every call as forced: whatever is at
\* the target is removed
_create_single_symlink_replacing(f, link, force) ==
  LET Link(rem) == IF ~rem.ok THEN [ok |-> FALSE, fs |-> rem.fs] ELSE MakeLink(rem.fs, link)
      Remove(c) == Link(IF LExists(c.fs, link.target)
                        THEN RemoveExisting(c.fs, link.target)
                        ELSE [ok |-> TRUE, fs |-> c.fs])
  IN Remove(can_create_symlink(f, link))

\* yields [ok, fs]: ok is the returned boolean
_create_single_symlink(f, link, force) ==
  LET Link(rem) == IF ~rem.ok THEN [ok |-> FALSE, fs |-> rem.fs] ELSE MakeLink(rem.fs, link)
      Remove(c) == IF ~c.can /\ ~force THEN [ok |-> FALSE, fs |-> c.fs]
                   ELSE Link(IF force /\ Exists(c.fs, link.target)
                             THEN RemoveExisting(c.fs, link.target)
                             ELSE [ok |-> TRUE, fs |-> c.fs])
  IN Remove(can_create_symlink(f, link))

\* a forced _create_single_symlink that, when symlink_to is refused, removes
\* what is at the target before it gives up
_create_single_symlink_step_undoing(f, link, pc) ==
  LET target == link.target
      Go(next) == [fs |-> f, pc |-> next]
      After(r, next) == [fs |-> r.fs, pc |-> IF r.ok THEN next ELSE "False"]
      \* shutil.rmtree in two steps: what is below the directory, then the
      \* directory itself
      Below(r) ==
        IF r.ok /\ EntryAt(f, r).k = "dir"
        THEN [ok |-> TRUE,
              fs |-> [q \in Paths |-> IF IsUnder(q, r.p) /\ q # r.p THEN NoEntry ELSE f[q]]]
        ELSE [ok |-> FALSE, fs |-> f]
      Rmdir(r) ==
        IF r.ok /\ EntryAt(f, r).k = "dir" /\ \A q \in Paths : IsUnder(q, r.p) /\ q # r.p => f[q] = NoEntry
        THEN [ok |-> TRUE, fs |-> [f EXCEPT ![r.p] = NoEntry]]
        ELSE [ok |-> FALSE, fs |-> f]
  IN CASE pc = "can_create_symlink" ->
            IF DotfileLink_exists(f, link) /\ ~IsSymlink(f, target) THEN Go("exists")
            ELSE IF ~Exists(f, link.source) THEN Go("exists")
            ELSE IF ~Exists(f, Parent(target)) THEN Go("parent.mkdir")
            ELSE Go("exists")
       [] pc = "parent.mkdir" -> [fs |-> MkdirP(f, Parent(target)).fs, pc |-> "exists"]
       [] pc = "exists" -> Go(IF Exists(f, target) THEN "is_symlink" ELSE "mkdir")
       [] pc = "is_symlink" -> Go(IF IsSymlink(f, target) THEN "unlink" ELSE "is_file")
       [] pc = "is_file" -> Go(IF IsFile(f, target) THEN "unlink" ELSE "is_dir")
       [] pc = "is_dir" -> Go(IF IsDir(f, target) THEN "rmtree" ELSE "mkdir")
       [] pc = "unlink" -> After(Unlink(f, target), "mkdir")
       [] pc = "rmtree" -> After(Below(LStat(f, target)), "rmdir")
       [] pc = "rmdir" -> After(Rmdir(LStat(f, target)), "mkdir")
       [] pc = "mkdir" -> After(MkdirP(f, Parent(target)), "symlink_to")
       [] pc = "symlink_to" -> IF SymlinkTo(f, target, link.source).ok
                               THEN After(SymlinkTo(f, target, link.source), "True")
                               ELSE [fs |-> Unlink(f, target).fs, pc |-> "False"]

\* _create_single_symlink(link, force=True) one file system call at a time:
\* pc names the call to be made, the step yields the tree after it and the
\* next call, "True" / "False" when the method returns
_create_single_symlink_step(f, link, pc) ==
  LET target == link.target
      Go(next) == [fs |-> f, pc |-> next]
      After(r, next) == [fs |-> r.fs, pc |-> IF r.ok THEN next ELSE "False"]
      \* shutil.rmtree in two steps: what is below the directory, then the
      \* directory itself
      Below(r) ==
        IF r.ok /\ EntryAt(f, r).k = "dir"
        THEN [ok |-> TRUE,
              fs |-> [q \in Paths |-> IF IsUnder(q, r.p) /\ q # r.p THEN NoEntry ELSE f[q]]]
        ELSE [ok |-> FALSE, fs |-> f]
      Rmdir(r) ==
        IF r.ok /\ EntryAt(f, r).k = "dir" /\ \A q \in Paths : IsUnder(q, r.p) /\ q # r.p => f[q] = NoEntry
        THEN [ok |-> TRUE, fs |-> [f EXCEPT ![r.p] = NoEntry]]
        ELSE [ok |-> FALSE, fs |-> f]
  IN CASE pc = "can_create_symlink" ->
            IF DotfileLink_exists(f, link) /\ ~IsSymlink(f, target) THEN Go("exists")
            ELSE IF ~Exists(f, link.source) THEN Go("exists")
            ELSE IF ~Exists(f, Parent(target)) THEN Go("parent.mkdir")
            ELSE Go("exists")
       [] pc = "parent.mkdir" -> [fs |-> MkdirP(f, Parent(target)).fs, pc |-> "exists"]
       [] pc = "exists" -> Go(IF Exists(f, target) THEN "is_symlink" ELSE "mkdir")
       [] pc = "is_symlink" -> Go(IF IsSymlink(f, target) THEN "unlink" ELSE "is_file")
       [] pc = "is_file" -> Go(IF IsFile(f, target) THEN "unlink" ELSE "is_dir")
       [] pc = "is_dir" -> Go(IF IsDir(f, target) THEN "rmtree" ELSE "mkdir")
       [] pc = "unlink" -> After(Unlink(f, target), "mkdir")
       [] pc = "rmtree" -> After(Below(LStat(f, target)), "rmdir")
       [] pc = "rmdir" -> After(Rmdir(LStat(f, target)), "mkdir")
       [] pc = "mkdir" -> After(MkdirP(f, Parent(target)), "symlink_to")
       [] pc = "symlink_to" -> After(SymlinkTo(f, target, link.source), "True")

create_symlink(f, source, target, force) ==
  _create_single_symlink(f, DotfileLink(source, target, "manual"), force)

Returned(success, items) ==
  [status |-> "returned", exc |-> "", success |-> success, items |-> items, code |-> 0]
Raised(exc) ==
  [status |-> "raised", exc |-> exc, success |-> FALSE, items |-> <<>>, code |-> 0]

RECURSIVE PlanLinks(_, _, _, _)
\* the planning loop of install_template
PlanLinks(f, template_path, name, files) ==
  IF files = <<>> THEN <<>>
  ELSE LET source == template_path \o Head(files)
           target == user_home \o Head(files)
           rest == PlanLinks(f, template_path, name, Tail(files))
       IN IF ~Exists(f, source) THEN rest
          ELSE <<DotfileLink(source, target, name)>> \o rest

RECURSIVE CreateLinks_stopping(_, _, _)
\* a creation loop that gives up at the first link that fails
CreateLinks_stopping(f, links, force) ==
  IF links = <<>> THEN [fs |-> f, success |-> TRUE, items |-> <<>>]
  ELSE LET Join(r, rest) ==
             [fs |-> rest.fs, success |-> rest.success,
              items |-> <<Head(links)>> \o rest.items]
           Rest(r) == IF ~r.ok THEN [fs |-> r.fs, success |-> FALSE, items |-> <<>>]
                      ELSE Join(r, CreateLinks_stopping(r.fs, Tail(links), force))
       IN Rest(_create_single_symlink(f, Head(links), force))

RECURSIVE CreateLinks(_, _, _)
\* the creation loop of install_template: [fs, success, items]
CreateLinks(f, links, force) ==
  IF links = <<>> THEN [fs |-> f, success |-> TRUE, items |-> <<>>]
  ELSE LET Join(r, rest) ==
             [fs |-> rest.fs,
              success |-> r.ok /\ rest.success,
              items |-> IF r.ok THEN <<Head(links)>> \o rest.items ELSE rest.items]
           Rest(r) == Join(r, CreateLinks(r.fs, Tail(links), force))
       IN Rest(_create_single_symlink(f, Head(links), force))

\* yields [fs, ret]
install_template(f, t, force, dry_run) ==
  LET Result(c) == [fs |-> c.fs, ret |-> Returned(c.success, c.items)]
      Create(links_to_create) ==
        IF dry_run THEN [fs |-> f, ret |-> Returned(TRUE, links_to_create)]
        ELSE Result(CreateLinks(f, links_to_create, force))
  IN IF ~is_dotfiles_template(t) THEN [fs |-> f, ret |-> Raised("ValueError")]
     ELSE IF ~Exists(f, repository_path \o <<"dotfiles", t.name>>)
     THEN [fs |-> f, ret |-> Raised("FileNotFoundError")]
     ELSE Create(PlanLinks(f, repository_path \o <<"dotfiles", t.name>>, t.name, t.files))

\* expected_symlinks_for_template: no file system access
RECURSIVE expected_symlinks_for_template(_, _)
expected_symlinks_for_template(t, files) ==
  IF files = <<>> THEN <<>>
  ELSE <<DotfileLink(repository_path \o <<"dotfiles", t.name>> \o Head(files),
                     user_home \o Head(files), t.name)>>
       \o expected_symlinks_for_template(t, Tail(files))

(***************************************************************************)
(* ProjectFile (models/project_file.py)                                    *)
(***************************************************************************)
\* yields [ok, exc, rec]
create_from_copy(f, source, target, name) ==
  LET Record(c) ==
        IF ~c.ok THEN [ok |-> FALSE, exc |-> "RuntimeError", rec |-> <<>>]
        ELSE [ok |-> TRUE, exc |-> "",
              rec |-> [source |-> source, target |-> target, template_name |-> name,
                       checksum |-> c.sum,
                       file_mode |-> EntryAt(f, Stat(f, source)).meta]]
  IN IF ~Exists(f, source) THEN [ok |-> FALSE, exc |-> "FileNotFoundError", rec |-> <<>>]
     ELSE Record(calculate_checksum(f, source))

verify_integrity(f, pf) ==
  IF ~Exists(f, pf.target) THEN FALSE
  ELSE LET c == calculate_checksum(f, pf.target)
       IN c.ok /\ c.sum = pf.checksum

verify_source_match(f, pf) ==
  LET Same(s, t) == s.ok /\ t.ok /\ s.sum = t.sum
  IN IF ~Exists(f, pf.target) \/ ~Exists(f, pf.source) THEN FALSE
     ELSE Same(calculate_checksum(f, pf.source), calculate_checksum(f, pf.target))

\* get_status that compares with the source before it compares with the
\* recorded checksum
get_status_source_first(f, pf) ==
  IF ~Exists(f, pf.target) THEN "missing"
  ELSE IF Exists(f, pf.source) /\ ~verify_source_match(f, pf) THEN "source_changed"
  ELSE IF ~verify_integrity(f, pf) THEN "modified"
  ELSE "valid"

\* ProjectFile.get_status
get_status(f, pf) ==
  IF ~Exists(f, pf.target) THEN "missing"
  ELSE IF ~verify_integrity(f, pf) THEN "modified"
  ELSE IF Exists(f, pf.source) /\ ~verify_source_match(f, pf) THEN "source_changed"
  ELSE "valid"

\* verify_template_links: one link per template file, the source is not
\* looked at
verify_template_links(t) ==
  IF ~is_dotfiles_template(t) THEN <<>>
  ELSE [i \in 1..Len(t.files) |->
          DotfileLink(repository_path \o <<"dotfiles", t.name>> \o t.files[i],
                      user_home \o t.files[i], t.name)]

\* yields [fs, ret]: ret.items holds the links counted (dry run) or
\* unlinked, the returned count is their number
remove_template_links(f, t, dry_run) ==
  LET links == verify_template_links(t)
      Removed(acc, u, link) ==
        IF u.ok THEN [fs |-> u.fs, success |-> acc.success, items |-> Append(acc.items, link)]
        ELSE [fs |-> u.fs, success |-> FALSE, items |-> acc.items]
      Step(acc, link) ==
        IF IsSymlink(acc.fs, link.target) THEN Removed(acc, Unlink(acc.fs, link.target), link)
        ELSE acc
      Loop[i \in 0..Len(links)] ==
        IF i = 0 THEN [fs |-> f, success |-> TRUE, items |-> <<>>]
        ELSE Step(Loop[i - 1], links[i])
      Result(c) == [fs |-> c.fs, ret |-> Returned(c.success, c.items)]
  IN IF ~is_dotfiles_template(t) THEN [fs |-> f, ret |-> Returned(TRUE, <<>>)]
     ELSE IF dry_run
     THEN [fs |-> f,
           ret |-> Returned(TRUE, SelectSeq(links, LAMBDA link : IsSymlink(f, link.target)))]
     ELSE Result(Loop[Len(links)])

(***************************************************************************)
(* TemplatesManager (lib/templates.py)                                     *)
(***************************************************************************)
\* the parent directory is made, the file is copied and its record is
\* made: [ok, fs, rec]
CopyFile(f, source, target, name) ==
  LET Record(g, p) == [ok |-> p.ok, fs |-> g, rec |-> p.rec]
      Written(c) == IF ~c.ok THEN [ok |-> FALSE, fs |-> c.fs, rec |-> <<>>]
                    ELSE Record(c.fs, create_from_copy(c.fs, source, target, name))
      Copy(m) == IF ~m.ok THEN [ok |-> FALSE, fs |-> m.fs, rec |-> <<>>]
                 ELSE Written(Copy2(m.fs, source, target))
  IN Copy(MkdirP(f, Parent(target)))

\* _copy_single_file without the test of the target: it copies over
\* whatever is there
_copy_single_file_overwriting(f, source, target, name, force) ==
  CopyFile(f, source, target, name)

\* _copy_single_file that does not read force: an existing target is
\* always refused
_copy_single_file_refusing(f, source, target, name, force) ==
  IF Exists(f, target) THEN [ok |-> FALSE, fs |-> f, rec |-> <<>>]
  ELSE CopyFile(f, source, target, name)

\* yields [ok, fs, rec]: ok = FALSE is the returned None
_copy_single_file(f, source, target, name, force) ==
  IF Exists(f, target) /\ ~force THEN [ok |-> FALSE, fs |-> f, rec |-> <<>>]
  ELSE CopyFile(f, source, target, name)

RECURSIVE PlanCopies(_, _, _, _)
\* the planning loop of apply_template: pairs <<source, target>>
PlanCopies(f, template_path, dir, files) ==
  IF files = <<>> THEN <<>>
  ELSE LET source == template_path \o Head(files)
           target == dir \o Head(files)
           rest == PlanCopies(f, template_path, dir, Tail(files))
       IN IF ~Exists(f, source) THEN rest ELSE <<(<<source, target>>)>> \o rest

RECURSIVE DryRunRecords(_, _, _)
\* the dry-run loop of apply_template: [ok, exc, items]
DryRunRecords(f, plan, name) ==
  IF plan = <<>> THEN [ok |-> TRUE, exc |-> "", items |-> <<>>]
  ELSE IF ~Exists(f, Head(plan)[1]) THEN DryRunRecords(f, Tail(plan), name)
  ELSE LET Join(p, rest) ==
             IF ~p.ok THEN [ok |-> FALSE, exc |-> p.exc, items |-> <<>>]
             ELSE IF ~rest.ok THEN rest
             ELSE [ok |-> TRUE, exc |-> "", items |-> <<p.rec>> \o rest.items]
       IN Join(create_from_copy(f, Head(plan)[1], Head(plan)[2], name),
               DryRunRecords(f, Tail(plan), name))

RECURSIVE CopyFiles(_, _, _, _)
\* the copy loop of apply_template: [fs, success, items]
CopyFiles(f, plan, name, force) ==
  IF plan = <<>> THEN [fs |-> f, success |-> TRUE, items |-> <<>>]
  ELSE LET Join(r, rest) ==
             [fs |-> rest.fs,
              success |-> r.ok /\ rest.success,
              items |-> IF r.ok THEN <<r.rec>> \o rest.items ELSE rest.items]
           Rest(r) == Join(r, CopyFiles(r.fs, Tail(plan), name, force))
       IN Rest(_copy_single_file(f, Head(plan)[1], Head(plan)[2], name, force))

\* apply_template after its two checks: the target directory is made, the
\* plan is drawn up and carried out
ApplyChecked(f, t, dir, force, dry_run) ==
  LET Planned(d) == IF d.ok THEN Returned(TRUE, d.items) ELSE Raised(d.exc)
      Result(c) == [fs |-> c.fs, ret |-> Returned(c.success, c.items)]
      Carry(g, files_to_copy) ==
        IF dry_run
        THEN [fs |-> g, ret |-> Planned(DryRunRecords(g, files_to_copy, t.name))]
        ELSE Result(CopyFiles(g, files_to_copy, t.name, force))
      Plan(m) ==
        IF ~m.ok THEN [fs |-> m.fs, ret |-> Raised("FileExistsError")]
        ELSE Carry(m.fs, PlanCopies(m.fs, repository_path \o <<"projects", t.name>>, dir, t.files))
  IN Plan(IF ~dry_run THEN MkdirP(f, dir) ELSE [ok |-> TRUE, fs |-> f])

\* apply_template that makes the target directory before its two checks
apply_template_mkdir_first(f, t, dir, force, dry_run) ==
  LET Check(m) ==
        IF ~m.ok THEN [fs |-> m.fs, ret |-> Raised("FileExistsError")]
        ELSE IF ~is_project_template(t) THEN [fs |-> m.fs, ret |-> Raised("ValueError")]
        ELSE IF ~Exists(m.fs, repository_path \o <<"projects", t.name>>)
        THEN [fs |-> m.fs, ret |-> Raised("FileNotFoundError")]
        ELSE ApplyChecked(m.fs, t, dir, force, dry_run)
  IN Check(IF ~dry_run THEN MkdirP(f, dir) ELSE [ok |-> TRUE, fs |-> f])

\* yields [fs, ret]
apply_template(f, t, dir, force, dry_run) ==
  IF ~is_project_template(t) THEN [fs |-> f, ret |-> Raised("ValueError")]
  ELSE IF ~Exists(f, repository_path \o <<"projects", t.name>>)
  THEN [fs |-> f, ret |-> Raised("FileNotFoundError")]
  ELSE ApplyChecked(f, t, dir, force, dry_run)

\* the test of one file that looks at the target alone
IsConflict_target_only(f, source, target) == Exists(f, target)

\* the test of one file in check_file_conflicts
IsConflict(f, source, target) == Exists(f, source) /\ Exists(f, target)

RECURSIVE ConflictLoop(_, _, _, _)
ConflictLoop(f, template_path, dir, files) ==
  IF files = <<>> THEN <<>>
  ELSE LET source == template_path \o Head(files)
           target == dir \o Head(files)
           rest == ConflictLoop(f, template_path, dir, Tail(files))
       IN IF IsConflict(f, source, target) THEN <<(<<source, target>>)>> \o rest ELSE rest

\* yields the returned list
check_file_conflicts(f, t, dir) ==
  IF ~is_project_template(t) THEN <<>>
  ELSE LET template_path == repository_path \o <<"projects", t.name>>
       IN IF ~Exists(f, template_path) THEN <<>>
          ELSE ConflictLoop(f, template_path, dir, t.files)

(***************************************************************************)
(* status command (cli/status_command.py)                                  *)
(***************************************************************************)
\* the attributes of a DotfilesManager instance
DotfilesManagerAttrs ==
  {"user_home", "logger", "install_template", "_create_single_symlink", "create_symlink",
   "verify_template_links", "check_symlinks_status", "remove_template_links",
   "list_installed_templates", "expected_symlinks_for_template"}

\* the classification of one expected link, lines 81-104
ClassifyLink(f, link) ==
  IF Exists(f, link.target)
  THEN IF IsSymlink(f, link.target)
       THEN LET actual_source == Resolve(f, link.target)
            IN IF actual_source = link.source
               THEN [target |-> link.target, source |-> link.source,
                     actual_source |-> <<>>, status |-> "ok"]
               ELSE [target |-> link.target, source |-> link.source,
                     actual_source |-> actual_source, status |-> "wrong_target"]
       ELSE [target |-> link.target, source |-> link.source,
             actual_source |-> <<>>, status |-> "not_symlink"]
  ELSE [target |-> link.target, source |-> link.source,
        actual_source |-> <<>>, status |-> "missing"]

RECURSIVE ClassifyLinks(_, _)
ClassifyLinks(f, links) ==
  IF links = <<>> THEN <<>>
  ELSE <<ClassifyLink(f, Head(links))>> \o ClassifyLinks(f, Tail(links))

\* the command for the catalog <<t>>: yields ret, code is the exit code
status(f, t) ==
  IF ~is_dotfiles_template(t)
  THEN [status |-> "exit", exc |-> "", success |-> TRUE, items |-> <<>>, code |-> 0]
  ELSE IF "_get_symlinks_for_template" \notin DotfilesManagerAttrs
  THEN [status |-> "exit", exc |-> "AttributeError", success |-> FALSE, items |-> <<>>, code |-> 1]
  ELSE [status |-> "exit", exc |-> "", success |-> TRUE,
        items |-> ClassifyLinks(f, expected_symlinks_for_template(t, t.files)), code |-> 0]

(***************************************************************************)
(* Template discovery: GitOperations.discover_templates                    *)
(*                                                                         *)
(* The repository is read through pathlib: repo is what exists(), iterdir()*)
(* and rglob("*") report of it.  A directory is listed as the sequence of  *)
(* its items in the order the operating system returns them.               *)
(***************************************************************************)
\* the spelling of a directory name
Chars(v) ==
  CASE v = "T" -> <<"T">>
    [] v = "U" -> <<"U">>
    [] v = ".T" -> <<".", "T">>
    [] v = "T T" -> <<"T", " ", "T">>
    [] v = "T." -> <<"T", ".">>

\* str.isalnum() of one character
IsAlnumChar(c) == c \in {"T", "U"}

\* Template.validate_name
validate_name(v) ==
  LET Kept(cs) == SelectSeq(cs, LAMBDA c : c \notin {"-", "_", "."})
      IsAlnum(cs) == cs # <<>> /\ \A i \in 1..Len(cs) : IsAlnumChar(cs[i])
      Valid(cs) == /\ IsAlnum(Kept(cs))
                   /\ ~(cs[1] = "." \/ cs[Len(cs)] = ".")
  IN Valid(Chars(v))

\* Template.validate_files; str.strip() of a relative path is empty only for
\* a single component of white space
validate_files(v) ==
  /\ v # <<>>
  /\ \A i \in 1..Len(v) : v[i] # <<" ">>

\* a test that holds of every item that exists, directories included
Entry_exists(e) == e.k # "link_gone"

\* Path.is_file() of an item rglob yields: symbolic links are followed
Entry_is_file(e) == e.k \in {"file", "link_file"}

\* the loop over template_dir.rglob("*"): acc = [files, install_script]
RECURSIVE ScanEntries(_, _)
ScanEntries(entries, acc) ==
  IF entries = <<>> THEN acc
  ELSE LET Step(e) ==
             IF ~Entry_is_file(e) THEN acc
             ELSE IF Name(e.rel) = "install.sh"
             THEN [files |-> acc.files, install_script |-> <<e.rel>>]
             ELSE IF Name(e.rel) # "metadata.toml"
             THEN [files |-> Append(acc.files, e.rel), install_script |-> acc.install_script]
             ELSE acc
       IN ScanEntries(Tail(entries), Step(Head(entries)))

\* tomllib.load of the text of a sidecar: a table (set of key/value pairs),
\* or TOMLDecodeError
tomllib_load(text) ==
  CASE text = "description = 'Vim config'" ->
         [ok |-> TRUE, data |-> {<<"description", <<"Vim config">>>>}]
    [] text = "description = ''" -> [ok |-> TRUE, data |-> {<<"description", <<>>>>}]
    [] text = "author = 'me'" -> [ok |-> TRUE, data |-> {<<"author", <<"me">>>>}]
    [] OTHER -> [ok |-> FALSE, data |-> {}]

\* dict.get(key, default)
DictGet(d, key, default) ==
  IF \E kv \in d : kv[1] = key THEN (CHOOSE kv \in d : kv[1] = key)[2] ELSE default

\* metadata_file.exists() for template_dir / "metadata.toml"
SidecarExists(dir) ==
  \E i \in 1..Len(dir.entries) :
    dir.entries[i].rel = <<"metadata.toml">> /\ dir.entries[i].k # "link_gone"

\* the sidecar can be opened and parsed
SidecarLoads(dir) ==
  /\ \E i \in 1..Len(dir.entries) :
       dir.entries[i].rel = <<"metadata.toml">> /\ Entry_is_file(dir.entries[i])
  /\ tomllib_load(dir.sidecar).ok

\* Template(...): the field validators of the model
TemplateValid(t) ==
  /\ validate_name(t.name)
  /\ Len(t.description) >= 1
  /\ validate_files(t.files)

\* _create_template_from_directory: <<>> stands for None
_create_template_from_directory(dir, template_type, now) ==
  LET Described(metadata) ==
        [name |-> dir.name,
         description |-> DictGet(metadata, "description", <<"Template", dir.name>>),
         type |-> template_type,
         files |-> <<>>,
         install_script |-> <<>>,
         metadata |-> metadata,
         discovered_at |-> now,
         template_path |-> repository_path \o
             <<IF template_type = "dotfiles" THEN "dotfiles" ELSE "projects", dir.name>>]
      Build(scan, t) ==
        [t EXCEPT !.files = scan.files, !.install_script = scan.install_script]
      Validated(t) == IF TemplateValid(t) THEN <<t>> ELSE <<>>
      Create(scan) ==
        IF scan.files = <<>> THEN <<>>
        ELSE Validated(Build(scan, Described(
               IF SidecarExists(dir) /\ SidecarLoads(dir)
               THEN tomllib_load(dir.sidecar).data ELSE {})))
  IN IF dir.k = "denied" THEN <<>>
     ELSE Create(ScanEntries(dir.entries, [files |-> <<>>, install_script |-> <<>>]))

\* a loop over base_dir.iterdir() that ends at the first item that does not
\* make a template
RECURSIVE DiscoverItems_aborting(_, _, _)
DiscoverItems_aborting(items, template_type, now) ==
  IF items = <<>> THEN <<>>
  ELSE LET Rest(found) ==
             IF found = <<>> THEN <<>>
             ELSE found \o DiscoverItems_aborting(Tail(items), template_type, now)
           One(item) ==
             IF item.k # "file" /\ Chars(item.name)[1] # "."
             THEN _create_template_from_directory(item, template_type, now)
             ELSE <<>>
       IN Rest(One(Head(items)))

\* the loop of _discover_templates_in_directory over base_dir.iterdir()
RECURSIVE DiscoverItems(_, _, _)
DiscoverItems(items, template_type, now) ==
  IF items = <<>> THEN <<>>
  ELSE LET Rest == DiscoverItems(Tail(items), template_type, now)
           One(item) ==
             IF item.k # "file" /\ Chars(item.name)[1] # "."
             THEN _create_template_from_directory(item, template_type, now)
             ELSE <<>>
       IN One(Head(items)) \o Rest

\* a scan that finds the items of a directory only the first time
_discover_templates_in_directory_once(base, template_type, now) ==
  IF base.k # "dir" \/ now > 0 THEN <<>>
  ELSE DiscoverItems(base.items, template_type, now)

\* _discover_templates_in_directory: iterdir() of a regular file or of a
\* directory that may not be read raises OSError, which is caught
_discover_templates_in_directory(base, template_type, now) ==
  IF base.k # "dir" THEN <<>>
  ELSE DiscoverItems(base.items, template_type, now)

\* discover_templates: Path.exists() raises PermissionError when the
\* repository directory may not be searched
discover_templates(tree, now) ==
  IF tree.k = "denied"
  THEN [status |-> "raised", exc |-> "PermissionError", templates |-> <<>>]
  ELSE IF tree.k = "none"
  THEN [status |-> "returned", exc |-> "", templates |-> <<>>]
  ELSE [status |-> "returned", exc |-> "",
        templates |->
          (IF tree.dotfiles.k # "none"
           THEN _discover_templates_in_directory(tree.dotfiles, "dotfiles", now) ELSE <<>>)
          \o (IF tree.projects.k # "none"
              THEN _discover_templates_in_directory(tree.projects, "project", now) ELSE <<>>)]

\* by_name = {t.name: t for t in templates}: a later template replaces an
\* earlier one of the same name
ByName(templates, name) ==
  LET Hits == {i \in 1..Len(templates) : templates[i].name = name}
      Last(S) == CHOOSE i \in S : \A j \in S : j <= i
  IN IF Hits = {} THEN <<>> ELSE <<templates[Last(Hits)]>>

\* get_template_by_name(repository_path, name, template_type); "any" stands
\* for template_type = None
get_template_by_name(tree, name, template_type, now) ==
  LET Filtered(ts) ==
        IF template_type = "dotfiles" THEN SelectSeq(ts, is_dotfiles_template)
        ELSE IF template_type = "project" THEN SelectSeq(ts, is_project_template)
        ELSE ts
      Lookup(hit) ==
        IF hit # <<>> THEN [status |-> "returned", exc |-> "", templates |-> hit]
        ELSE [status |-> "raised", exc |-> "ConfigurationError", templates |-> <<>>]
      Get(d) == IF d.status = "raised" THEN d ELSE Lookup(ByName(Filtered(d.templates), name))
  IN Get(discover_templates(tree, now))

(***************************************************************************)
(* Repositories for discovery                                              *)
(***************************************************************************)
Item(rel, k) == [rel |-> rel, k |-> k]

\* what a template directory may hold: [k, entries, sidecar], the entries
\* in rglob order, sidecar the text of metadata.toml
Holding(k, entries, sidecar) == [k |-> k, entries |-> entries, sidecar |-> sidecar]

OneFile == Holding("dir", <<Item(FileA, "file")>>, "")

FullTemplate ==
  Holding("dir",
          <<Item(<<"d">>, "dir"), Item(FileA, "file"), Item(<<"install.sh">>, "file"),
            Item(<<"metadata.toml">>, "file"), Item(FileB, "file"),
            Item(<<"d", "install.sh">>, "file"), Item(<<"d", "metadata.toml">>, "file")>>,
          "description = 'Vim config'")

Contents ==
  { OneFile,
    FullTemplate,
    \* an empty directory
    Holding("dir", <<>>, ""),
    \* nothing but the install script and the sidecar
    Holding("dir", <<Item(<<"install.sh">>, "file"), Item(<<"metadata.toml">>, "file")>>,
            "author = 'me'"),
    \* a sidecar that is not TOML
    Holding("dir", <<Item(<<"metadata.toml">>, "file"), Item(FileA, "file")>>, "description ="),
    \* a sidecar whose description is empty
    Holding("dir", <<Item(FileA, "file"), Item(<<"metadata.toml">>, "file")>>,
            "description = ''"),
    \* a sidecar without a description, and a directory named as a sidecar
    Holding("dir", <<Item(FileA, "file"), Item(<<"metadata.toml">>, "file"),
                     Item(<<"d">>, "dir"), Item(<<"d", "metadata.toml">>, "dir")>>,
            "author = 'me'"),
    \* symbolic links: to a file, to nothing, and a file named of white space
    Holding("dir", <<Item(FileA, "link_file"), Item(<<"g">>, "link_gone"),
                     Item(<<"d">>, "dir")>>, ""),
    Holding("dir", <<Item(<<" ">>, "file"), Item(FileA, "file")>>, ""),
    \* a directory that may not be read, and a regular file
    Holding("denied", <<Item(FileA, "file")>>, ""),
    Holding("file", <<>>, "") }

Named(name, c) == [name |-> name, k |-> c.k, entries |-> c.entries, sidecar |-> c.sidecar]

DirNames == {"T", "U", ".T", "T T", "T."}

\* one item: any content under the name T, one file under any name
Singles ==
  {Named("T", c) : c \in Contents} \cup {Named(n, OneFile) : n \in DirNames}

\* a valid template directory U next to any other item, in either order
Pairs ==
  {<<Named("U", OneFile), s>> : s \in {x \in Singles : x.name # "U"}}
    \cup {<<s, Named("U", OneFile)>> : s \in {x \in Singles : x.name # "U"}}

Base(k, items) == [k |-> k, items |-> items]

DotfilesDirs ==
  {Base("none", <<>>), Base("file", <<>>), Base("denied", <<>>), Base("dir", <<>>)}
    \cup {Base("dir", <<s>>) : s \in Singles}
    \cup {Base("dir", p) : p \in Pairs}

ProjectsDirs ==
  {Base("none", <<>>), Base("file", <<>>), Base("dir", <<>>),
   Base("dir", <<Named("T", OneFile)>>), Base("dir", <<Named("T", FullTemplate)>>),
   Base("dir", <<Named("U", OneFile)>>)}

Repository(k, dotfiles, projects) == [k |-> k, dotfiles |-> dotfiles, projects |-> projects]

NoRepository == Repository("none", Base("none", <<>>), Base("none", <<>>))

Repositories ==
  {NoRepository, Repository("denied", Base("none", <<>>), Base("none", <<>>))}
    \cup {Repository("dir", d, p) : d \in DotfilesDirs, p \in ProjectsDirs}

(***************************************************************************)
(* install and apply commands (cli/install_command.py, apply_command.py)   *)
(*                                                                         *)
(* The commands read the repository of the file tree.  install.sh is no    *)
(* file of a template and no planned target, it is kept outside the tree:  *)
(* env.script tells whether the template directory holds one.             *)
(***************************************************************************)
\* the kind of the entry at p as rglob and is_file() see it
EntryKind(f, p) ==
  IF ~IsSymlink(f, p) THEN f[p].k
  ELSE IF IsFile(f, p) THEN "link_file"
  ELSE IF Exists(f, p) THEN "dir"
  ELSE "link_gone"

\* the directory <base>/T as rglob lists it, its files in the given order
TemplateDirOf(f, base, order, script) ==
  LET root == repository_path \o <<base, TemplateName>>
      Listed(rels) == SelectSeq(rels, LAMBDA rel : LExists(f, root \o rel))
      Items(rels) == [i \in 1..Len(rels) |-> Item(rels[i], EntryKind(f, root \o rels[i]))]
  IN Named(TemplateName,
           Holding(IF IsDir(f, root) THEN "dir" ELSE "file",
                   Items(Listed(<<<<"d">>>> \o order))
                     \o (IF script THEN <<Item(<<"install.sh">>, "file")>> ELSE <<>>),
                   ""))

BaseDirOf(f, base, order, script) ==
  LET dir == repository_path \o <<base>>
  IN IF ~LExists(f, dir) THEN Base("none", <<>>)
     ELSE IF ~IsDir(f, dir) THEN Base("file", <<>>)
     ELSE Base("dir", IF LExists(f, dir \o <<TemplateName>>)
                      THEN <<TemplateDirOf(f, base, order, script)>> ELSE <<>>)

\* what discovery reads of the file tree
RepositoryOf(f, order, script) ==
  Repository(IF IsDir(f, repository_path) THEN "dir" ELSE "none",
             BaseDirOf(f, "dotfiles", order, script),
             BaseDirOf(f, "projects", order, script))

\* Template.has_install_script
has_install_script(t) == t.install_script # <<>>

\* the install.sh step: TRUE when it raises out of the command.  The prompt
\* raises Abort at end of input; subprocess.run raises OSError for a script
\* that cannot be started; CalledProcessError is caught
ScriptStepRaises(t, opts, env) ==
  /\ has_install_script(t) /\ ~opts.no_script
  /\ ~opts.dry_run
  /\ env.answer \in {"end of input", "yes, cannot start"}

\* Template.get_install_script_path
get_install_script_path(t) ==
  repository_path \o <<IF is_dotfiles_template(t) THEN "dotfiles" ELSE "projects", t.name>>
    \o t.install_script[1]

\* the install.sh step of a command that got as far as its materializer:
\* [fs, run, raises], run the paths handed to subprocess.run and started,
\* raises whether the step raises out of the command.  dir is the target
\* directory of apply, <<>> for install, which runs the script where it is.
\* apply copies the script to dir/install.sh unless a file of that name is
\* there, runs dir/install.sh, and unlinks it when the run succeeded.  The
\* script itself is taken to change nothing.
ScriptStep(f, t, opts, env, dir) ==
  LET temp_script == dir \o <<"install.sh">>
      Skip == [fs |-> f, run |-> <<>>, raises |-> FALSE]
      Started(g, p) ==
        CASE env.answer = "yes" ->
               [fs |-> IF dir # <<>> /\ Exists(g, temp_script)
                       THEN Unlink(g, temp_script).fs ELSE g,
                run |-> <<p>>, raises |-> FALSE]
          [] env.answer = "yes, script fails" -> [fs |-> g, run |-> <<p>>, raises |-> FALSE]
          [] OTHER -> [fs |-> g, run |-> <<>>, raises |-> ScriptStepRaises(t, opts, env)]
      Copied(c) == IF ~c.ok THEN [fs |-> c.fs, run |-> <<>>, raises |-> TRUE]
                   ELSE Started(c.fs, temp_script)
  IN IF ~(has_install_script(t) /\ ~opts.no_script) THEN Skip
     ELSE IF ~Exists(f, get_install_script_path(t)) THEN Skip
     ELSE IF opts.dry_run \/ env.answer = "no" THEN Skip
     ELSE IF env.answer = "end of input"
     THEN [fs |-> f, run |-> <<>>, raises |-> ScriptStepRaises(t, opts, env)]
     ELSE IF dir = <<>> THEN Started(f, get_install_script_path(t))
     ELSE IF Exists(f, temp_script) THEN Started(f, temp_script)
     ELSE Copied(Copy2(f, get_install_script_path(t), temp_script))

\* raise typer.Exit(code), at the given stage of the command: [fs, ret, run]
Exit(f, stage, success, items, code) ==
  [fs |-> f,
   ret |-> [status |-> "exit", exc |-> stage, success |-> success, items |-> items,
            code |-> code],
   run |-> <<>>]

\* an end of the commands that exits 0 whatever the materializer returned
Finish_ignoring_success(t, opts, env, r, dir) ==
  LET End(st) ==
        [Exit(st.fs, IF st.raises THEN "install.sh" ELSE "", r.ret.success, r.ret.items,
              IF st.raises THEN 1 ELSE 0)
           EXCEPT !.run = st.run]
  IN IF r.ret.status = "raised" THEN Exit(r.fs, r.ret.exc, FALSE, <<>>, 1)
     ELSE End(ScriptStep(r.fs, t, opts, env, dir))

\* the end of both commands, r the [fs, ret] of the materializer
Finish(t, opts, env, r, dir) ==
  LET End(st) ==
        [Exit(st.fs, IF st.raises THEN "install.sh" ELSE "", r.ret.success, r.ret.items,
              IF st.raises THEN 1 ELSE IF r.ret.success THEN 0 ELSE 2)
           EXCEPT !.run = st.run]
  IN IF r.ret.status = "raised" THEN Exit(r.fs, r.ret.exc, FALSE, <<>>, 1)
     ELSE End(ScriptStep(r.fs, t, opts, env, dir))

\* configuration and synchronisation, lines 35-72 of both commands: the
\* stage that ends the command, "" when it goes on
Prologue(env) ==
  IF env.url = "invalid" THEN "invalid url"
  ELSE IF env.url = "unset" THEN "not configured"
  ELSE IF env.sync = "fails" THEN "sync failed"
  ELSE ""

PrologueCode(stage) == IF stage = "not configured" THEN 1 ELSE 4

\* the install command
install(f, template_name, opts, env, now) ==
  LET Install(hit) ==
        IF hit = <<>> THEN Exit(f, "not found", FALSE, <<>>, 1)
        ELSE Finish(hit[1], opts, env,
                    install_template(f, hit[1], opts.force, opts.dry_run), <<>>)
      Find(d) ==
        IF d.status = "raised" THEN Exit(f, d.exc, FALSE, <<>>, 1)
        ELSE Install(ByName(SelectSeq(d.templates, is_dotfiles_template), template_name))
  IN IF Prologue(env) # ""
     THEN Exit(f, Prologue(env), FALSE, <<>>, PrologueCode(Prologue(env)))
     ELSE Find(discover_templates(RepositoryOf(f, env.order, env.script), now))

\* an apply command that goes on whatever is answered to "Continue anyway?"
apply_whatever_answered(f, template_name, target_dir, opts, env, now) ==
  LET Apply(hit) ==
        IF hit = <<>> THEN Exit(f, "not found", FALSE, <<>>, 1)
        ELSE Finish(hit[1], opts, env,
                    apply_template(f, hit[1], target_dir, opts.force, opts.dry_run),
                    target_dir)
      Find(d) ==
        IF d.status = "raised" THEN Exit(f, d.exc, FALSE, <<>>, 1)
        ELSE Apply(ByName(SelectSeq(d.templates, is_project_template), template_name))
  IN IF Prologue(env) # ""
     THEN Exit(f, Prologue(env), FALSE, <<>>, PrologueCode(Prologue(env)))
     ELSE Find(discover_templates(RepositoryOf(f, env.order, env.script), now))

\* the apply command
apply(f, template_name, target_dir, opts, env, now) ==
  LET Asked(t) ==
        /\ ~opts.force /\ ~opts.dry_run
        /\ check_file_conflicts(f, t, target_dir) # <<>>
      Apply(hit) ==
        IF hit = <<>> THEN Exit(f, "not found", FALSE, <<>>, 1)
        ELSE IF Asked(hit[1]) /\ env.confirm = "no"
        THEN Exit(f, "aborted", FALSE, <<>>, 2)
        ELSE IF Asked(hit[1]) /\ env.confirm = "end of input"
        THEN Exit(f, "Abort", FALSE, <<>>, 1)
        ELSE Finish(hit[1], opts, env,
                    apply_template(f, hit[1], target_dir, opts.force, opts.dry_run),
                    target_dir)
      Find(d) ==
        IF d.status = "raised" THEN Exit(f, d.exc, FALSE, <<>>, 1)
        ELSE Apply(ByName(SelectSeq(d.templates, is_project_template), template_name))
  IN IF Prologue(env) # ""
     THEN Exit(f, Prologue(env), FALSE, <<>>, PrologueCode(Prologue(env)))
     ELSE Find(discover_templates(RepositoryOf(f, env.order, env.script), now))

(***************************************************************************)
(* Initial file trees                                                      *)
(***************************************************************************)
\* template.files: the relative paths of regular files of one directory
\* tree, in discovery order
FileLists == {<<FileA>>, <<FileA, FileB>>, <<FileB, FileA>>}

KindDir(type) == IF type = "dotfiles" THEN "dotfiles" ELSE "projects"
OtherDir(type) == IF type = "dotfiles" THEN "projects" ELSE "dotfiles"
BaseOf(type) == IF type = "dotfiles" THEN user_home ELSE target_directory

SourceStates == {"none", "file", "dir"}
TargetStates == {"none", "file", "dir", "link_src", "link_file", "link_dir", "link_gone"}
ParentStates == {"none", "file", "dir", "link_dir"}

Put(f, p, e) == [f EXCEPT ![p] = e]

SourceEntry(st, rel) ==
  CASE st = "none" -> NoEntry
    [] st = "file" -> FileEntry(DataOf(rel), ModeOf(rel))
    [] st = "dir" -> DirEntry

TargetEntry(st, src) ==
  CASE st = "none" -> NoEntry
    [] st = "file" -> FileEntry(OldData, OldMode)
    [] st = "dir" -> DirEntry
    [] st = "link_src" -> LinkEntry(src)
    [] st = "link_file" -> LinkEntry(ExtFile)
    [] st = "link_dir" -> LinkEntry(ExtDir)
    [] st = "link_gone" -> LinkEntry(ExtGone)

\* a target entry at p; a directory there holds one old file
PutTarget(f, p, st, src, rel) ==
  IF st = "dir"
  THEN Put(Put(f, p, DirEntry), Append(p, Name(rel)), FileEntry(OldData, OldMode))
  ELSE Put(f, p, TargetEntry(st, src))

\* the repository, the external tree and nothing else
Skeleton ==
  [q \in Paths |->
     IF q \in {repository_path, repository_path \o <<"dotfiles">>,
               repository_path \o <<"projects">>, ExtRoot, ExtDir}
     THEN DirEntry
     ELSE IF q = ExtFile THEN FileEntry(ExtData, OldMode)
     ELSE NoEntry]

SourceTree(f, root, sa, sd, sb) ==
  LET f1 == Put(f, root, DirEntry)
      f2 == Put(f1, root \o FileA, SourceEntry(sa, FileA))
      f3 == Put(f2, root \o <<"d">>, SourceEntry(sd, <<"d">>))
  IN IF sd = "dir" THEN Put(f3, root \o FileB, SourceEntry(sb, FileB)) ELSE f3

BaseTree(f, base, root, ta, td, tb) ==
  LET f1 == Put(f, base, DirEntry)
      f2 == PutTarget(f1, base \o FileA, ta, root \o FileA, FileA)
  IN CASE td = "none" -> f2
       [] td = "file" -> Put(f2, base \o <<"d">>, FileEntry(OldData, OldMode))
       [] td = "dir" -> PutTarget(Put(f2, base \o <<"d">>, DirEntry),
                                  base \o FileB, tb, root \o FileB, FileB)
       [] td = "link_dir" -> PutTarget(Put(f2, base \o <<"d">>, LinkEntry(ExtDir)),
                                       ExtDir \o <<"b">>, tb, root \o FileB, FileB)

InitTree(type, srcRoot, otherRoot, sa, sd, sb, bs, ta, td, tb) ==
  LET root == repository_path \o <<KindDir(type), TemplateName>>
      other == repository_path \o <<OtherDir(type), TemplateName>>
      base == BaseOf(type)
      f1 == IF srcRoot = "dir" THEN SourceTree(Skeleton, root, sa, sd, sb) ELSE Skeleton
      f2 == IF otherRoot = "dir" THEN Put(f1, other, DirEntry) ELSE f1
  IN CASE bs = "none" -> f2
       [] bs = "file" -> Put(f2, base, FileEntry(OldData, OldMode))
       [] bs = "dir" -> BaseTree(f2, base, root, ta, td, tb)

NoCall == [op |-> "none", force |-> FALSE, dry_run |-> FALSE, source |-> <<>>, target |-> <<>>]
NoRet == [status |-> "none", exc |-> "", success |-> FALSE, items |-> <<>>, code |-> 0]

\* the plain states of one file: no symbolic link, no directory in the place
\* of a file, no file in the place of a directory
PlainA(sa, ta) == sa \in {"none", "file"} /\ ta \in {"none", "file"}
PlainB(sd, sb, td, tb) ==
  /\ sd \in {"none", "dir"} /\ sb \in {"none", "file"}
  /\ td \in {"none", "dir"} /\ tb \in {"none", "file"}

\* no discovery call and no copy has been made
InitIdle ==
  /\ repo = NoRepository
  /\ clock = 0
  /\ log = <<>>
  /\ copied = <<>>
  /\ procs = <<>>

Init ==
  \E type \in {"dotfiles", "project"}, files \in FileLists,
     srcRoot \in {"none", "dir"}, otherRoot \in {"none", "dir"},
     sa \in SourceStates, sd \in SourceStates, sb \in SourceStates,
     bs \in {"none", "file", "dir"},
     ta \in TargetStates, td \in ParentStates, tb \in TargetStates :
    \* one tree per combination
    /\ srcRoot = "none" => sa = "none" /\ sd = "none"
    /\ sd # "dir" => sb = "none"
    /\ bs # "dir" => ta = "none" /\ td = "none"
    /\ td \notin {"dir", "link_dir"} => tb = "none"
    \* at most one of the two files is in a state that is not plain, and
    \* an undeclared file is plain
    /\ PlainA(sa, ta) \/ PlainB(sd, sb, td, tb)
    /\ Len(files) = 1 => PlainB(sd, sb, td, tb)
    /\ otherRoot = "dir" => srcRoot = "none"
    /\ srcRoot = "none" => PlainA(sa, ta) /\ PlainB(sd, sb, td, tb)
    /\ tpl = [name |-> TemplateName, type |-> type, files |-> files]
    /\ fs = InitTree(type, srcRoot, otherRoot, sa, sd, sb, bs, ta, td, tb)
    /\ pre = fs
    /\ call = NoCall
    /\ ret = NoRet
    /\ ncalls = 0
    /\ InitIdle

(***************************************************************************)
(* Calls                                                                   *)
(***************************************************************************)
Call(op, force, dry_run) ==
  [op |-> op, force |-> force, dry_run |-> dry_run, source |-> <<>>, target |-> <<>>]

\* the call is recorded with its result r = [fs, ret]
Done(r, c) ==
  /\ fs' = r.fs
  /\ ret' = r.ret
  /\ call' = c
  /\ pre' = fs
  /\ ncalls' = ncalls + 1
  /\ UNCHANGED <<tpl, repo, clock, log, copied, procs>>

InstallTemplate ==
  \E force \in BOOLEAN, dry_run \in BOOLEAN :
    /\ ncalls < MaxCalls
    /\ Done(install_template(fs, tpl, force, dry_run), Call("install_template", force, dry_run))

ApplyTemplate ==
  \E force \in BOOLEAN, dry_run \in BOOLEAN :
    /\ ncalls < MaxCalls
    /\ Done(apply_template(fs, tpl, target_directory, force, dry_run),
            Call("apply_template", force, dry_run))

\* create_symlink(source, target, force) for a file of the dotfiles tree
CreateSymlink ==
  \E force \in BOOLEAN, rel \in RelFiles :
    LET source == repository_path \o <<"dotfiles", TemplateName>> \o rel
        target == user_home \o rel
        Result(r) == [fs |-> r.fs, ret |-> Returned(r.ok, <<>>)]
    IN /\ ncalls < MaxCalls
       /\ Done(Result(create_symlink(fs, source, target, force)),
               [op |-> "create_symlink", force |-> force, dry_run |-> FALSE,
                source |-> source, target |-> target])

RemoveTemplateLinks ==
  \E dry_run \in BOOLEAN :
    /\ ncalls < MaxCalls
    /\ Done(remove_template_links(fs, tpl, dry_run), Call("remove_template_links", FALSE, dry_run))

CheckFileConflicts ==
  /\ ncalls < MaxCalls
  /\ ret' = Returned(TRUE, check_file_conflicts(fs, tpl, target_directory))
  /\ call' = Call("check_file_conflicts", FALSE, FALSE)
  /\ pre' = fs
  /\ ncalls' = ncalls + 1
  /\ UNCHANGED <<tpl, fs, repo, clock, log, copied, procs>>

StatusCommand ==
  /\ ncalls < MaxCalls
  /\ ret' = status(fs, tpl)
  /\ call' = Call("status", FALSE, FALSE)
  /\ pre' = fs
  /\ ncalls' = ncalls + 1
  /\ UNCHANGED <<tpl, fs, repo, clock, log, copied, procs>>

Next ==
  \/ InstallTemplate
  \/ ApplyTemplate
  \/ CreateSymlink
  \/ RemoveTemplateLinks
  \/ CheckFileConflicts
  \/ StatusCommand

Spec == Init /\ [][Next]_vars

(***************************************************************************)
(* Discovery calls                                                         *)
(***************************************************************************)
InitDiscovery ==
  /\ repo \in Repositories
  /\ clock = 0
  /\ log = <<>>
  /\ copied = <<>>
  /\ procs = <<>>
  /\ tpl = [name |-> TemplateName, type |-> "dotfiles", files |-> <<FileA>>]
  /\ fs = InitTree("dotfiles", "none", "none", "none", "none", "none",
                   "none", "none", "none", "none")
  /\ pre = fs
  /\ call = NoCall
  /\ ret = NoRet
  /\ ncalls = 0

\* the call is logged with the repository it read and the time it read it
Logged(op, name, type, result) ==
  /\ Len(log) < MaxScans
  /\ log' = Append(log, [op |-> op, name |-> name, type |-> type,
                         repo |-> repo, at |-> clock, result |-> result])
  /\ clock' = clock + 1
  /\ UNCHANGED <<repo, tpl, fs, pre, call, ret, ncalls, copied, procs>>

DiscoverTemplates ==
  Logged("discover_templates", "", "any", discover_templates(repo, clock))

GetTemplateByName ==
  \E name \in {"T", "U"}, type \in {"any", "dotfiles", "project"} :
    Logged("get_template_by_name", name, type, get_template_by_name(repo, name, type, clock))

RemoveAt(s, i) == SubSeq(s, 1, i - 1) \o SubSeq(s, i + 1, Len(s))

\* between two calls a template directory is removed from the repository
ModifyRepository ==
  /\ Len(log) < MaxScans
  /\ repo.k = "dir"
  /\ \/ \E i \in 1..Len(repo.dotfiles.items) :
          repo' = [repo EXCEPT !.dotfiles.items = RemoveAt(@, i)]
     \/ \E i \in 1..Len(repo.projects.items) :
          repo' = [repo EXCEPT !.projects.items = RemoveAt(@, i)]
  /\ UNCHANGED <<clock, log, tpl, fs, pre, call, ret, ncalls, copied, procs>>

NextDiscovery ==
  \/ DiscoverTemplates
  \/ GetTemplateByName
  \/ ModifyRepository

SpecDiscovery == InitDiscovery /\ [][NextDiscovery]_vars

(***************************************************************************)
(* Drift of copied files                                                   *)
(***************************************************************************)
\* contents a file may be given after the copy
LaterData == {DataOf(FileA), "edited content"}

\* the state after a successful apply_template(force=false, dry_run=false)
\* of a project template whose sources are regular files
InitDrift ==
  \E files \in FileLists, bs \in {"none", "dir"} :
    LET t == [name |-> TemplateName, type |-> "project", files |-> files]
        After(r) ==
          /\ r.ret.status = "returned" /\ r.ret.success
          /\ fs = r.fs
          /\ copied = r.ret.items
          /\ procs = <<>>
          /\ tpl = t
    IN /\ After(apply_template(
                  InitTree("project", "dir", "none", "file", "dir", "file",
                           bs, "none", "none", "none"),
                  t, target_directory, FALSE, FALSE))
       /\ pre = fs
       /\ call = NoCall
       /\ ret = NoRet
       /\ ncalls = 0
       /\ repo = NoRepository
       /\ clock = 0
       /\ log = <<>>

\* the sources and the targets of the copies
DriftPaths ==
  {copied[i].source : i \in 1..Len(copied)} \cup {copied[i].target : i \in 1..Len(copied)}

\* a source or a target is written, or written anew
WriteFile ==
  \E p \in DriftPaths, d \in LaterData :
    /\ ncalls < MaxCalls
    /\ fs[p].k \in {"none", "file"}
    /\ fs' = [fs EXCEPT ![p] = FileEntry(d, OldMode)]
    /\ UNCHANGED <<tpl, pre, call, ret, ncalls, repo, clock, log, copied, procs>>

\* a source or a target is removed
RemoveFile ==
  \E p \in DriftPaths :
    /\ ncalls < MaxCalls
    /\ fs[p].k = "file"
    /\ fs' = [fs EXCEPT ![p] = NoEntry]
    /\ UNCHANGED <<tpl, pre, call, ret, ncalls, repo, clock, log, copied, procs>>

\* verify_integrity, verify_source_match and get_status of every record
VerifyFiles ==
  /\ ncalls < MaxCalls
  /\ ncalls' = ncalls + 1
  /\ ret' = Returned(TRUE,
                     [i \in 1..Len(copied) |->
                        [source |-> copied[i].source, target |-> copied[i].target,
                         integrity |-> verify_integrity(fs, copied[i]),
                         source_match |-> verify_source_match(fs, copied[i]),
                         status |-> get_status(fs, copied[i])]])
  /\ call' = Call("get_status", FALSE, FALSE)
  /\ pre' = fs
  /\ UNCHANGED <<tpl, fs, repo, clock, log, copied, procs>>

NextDrift ==
  \/ WriteFile
  \/ RemoveFile
  \/ VerifyFiles

SpecDrift == InitDrift /\ [][NextDrift]_vars

(***************************************************************************)
(* Command runs                                                            *)
(***************************************************************************)
\* what a command run meets outside the file tree: the configured URL, the
\* synchronisation, the order in which the template directory is listed,
\* install.sh and the answers to the prompts
Env(url, sync, order, script, answer, confirm) ==
  [url |-> url, sync |-> sync, order |-> order, script |-> script, answer |-> answer,
   confirm |-> confirm]

PlainEnv == Env("valid", "fresh", <<FileA, FileB>>, FALSE, "no", "yes")

Opts(force, dry_run, no_script) == [force |-> force, dry_run |-> dry_run, no_script |-> no_script]

Run(template_name, opts, env) == [template_name |-> template_name, opts |-> opts, env |-> env]

\* the runs of a command: every force and dry_run with nothing in the way,
\* and one variation at a time
Runs ==
  {Run("T", Opts(f, d, FALSE), [PlainEnv EXCEPT !.order = o]) :
     f \in BOOLEAN, d \in BOOLEAN, o \in {<<FileA, FileB>>, <<FileB, FileA>>}}
    \cup {Run("U", Opts(FALSE, FALSE, FALSE), PlainEnv)}
    \cup {Run("T", Opts(FALSE, FALSE, FALSE), [PlainEnv EXCEPT !.url = u]) :
            u \in {"invalid", "unset"}}
    \cup {Run("T", Opts(FALSE, FALSE, FALSE), [PlainEnv EXCEPT !.sync = s]) :
            s \in {"done", "fails"}}
    \cup {Run("T", Opts(FALSE, d, n), [PlainEnv EXCEPT !.script = TRUE, !.answer = a]) :
            d \in BOOLEAN, n \in BOOLEAN,
            a \in {"no", "yes", "yes, script fails", "yes, cannot start", "end of input"}}
    \cup {Run("T", Opts(FALSE, d, FALSE), [PlainEnv EXCEPT !.confirm = c]) :
            d \in BOOLEAN, c \in {"no", "end of input"}}

\* the run is recorded with its result r = [fs, ret, run]
CommandDone(r, c) ==
  /\ fs' = r.fs
  /\ ret' = r.ret
  /\ log' = r.run
  /\ call' = c
  /\ pre' = fs
  /\ ncalls' = ncalls + 1
  /\ UNCHANGED <<tpl, repo, clock, copied, procs>>

\* the trees the commands are run in
InitCommands ==
  \E type \in {"dotfiles", "project"},
     srcRoot \in {"none", "dir"}, sd \in {"none", "dir"},
     bs \in {"none", "file", "dir"},
     ta \in {"none", "file", "link_gone"}, td \in {"none", "file", "dir"},
     tb \in {"none", "file"}, script \in BOOLEAN, own \in BOOLEAN :
    LET Scripted(f) ==
          IF script
          THEN Put(f, repository_path \o <<KindDir(type), TemplateName, "install.sh">>,
                   FileEntry("script of T", "0755"))
          ELSE f
        WithScripts(f) ==
          IF own
          THEN Put(Scripted(f), target_directory \o <<"install.sh">>,
                   FileEntry("own script", "0755"))
          ELSE Scripted(f)
    IN
    /\ bs # "dir" => ta = "none" /\ td = "none"
    /\ td # "dir" => tb = "none"
    \* install.sh in the template, and the user's own install.sh in the
    \* target directory
    /\ script => srcRoot = "dir"
    /\ own => script /\ type = "project" /\ bs = "dir"
    /\ tpl = [name |-> TemplateName, type |-> type,
              files |-> IF sd = "dir" THEN <<FileA, FileB>> ELSE <<FileA>>]
    /\ fs = WithScripts(InitTree(type, srcRoot, "none",
                                 IF srcRoot = "dir" THEN "file" ELSE "none",
                                 IF srcRoot = "dir" THEN sd ELSE "none",
                                 IF srcRoot = "dir" /\ sd = "dir" THEN "file" ELSE "none",
                                 bs, ta, td, tb))
    /\ pre = fs
    /\ call = NoCall
    /\ ret = NoRet
    /\ ncalls = 0
    /\ InitIdle

\* the run is recorded with what it was asked and what it met
Ran(op, template_name, opts, env) ==
  [op |-> op, force |-> opts.force, dry_run |-> opts.dry_run, source |-> <<>>,
   target |-> <<>>, template_name |-> template_name, no_script |-> opts.no_script,
   env |-> env]

InstallCommand ==
  \E run \in Runs :
    /\ ncalls < MaxCalls
    \* the scan finds install.sh where the template holds it
    /\ run.env.script = IsFile(fs, repository_path \o <<"dotfiles", TemplateName, "install.sh">>)
    /\ CommandDone(install(fs, run.template_name, run.opts, run.env, clock),
                   Ran("install", run.template_name, run.opts, run.env))

ApplyCommand ==
  \E run \in Runs :
    /\ ncalls < MaxCalls
    /\ run.env.script = IsFile(fs, repository_path \o <<"projects", TemplateName, "install.sh">>)
    /\ CommandDone(apply(fs, run.template_name, target_directory, run.opts, run.env, clock),
                   Ran("apply", run.template_name, run.opts, run.env))

NextCommands ==
  \/ InstallCommand
  \/ ApplyCommand

SpecCommands == InitCommands /\ [][NextCommands]_vars

(***************************************************************************)
(* Library calls with a template whose file list holds a path with ".."    *)
(***************************************************************************)
\* a template with the file ../x, which Template.validate_files accepts;
\* the trees hold no symbolic link below the base directory
InitContainment ==
  \E type \in {"dotfiles", "project"},
     files \in {<<FileUp>>, <<FileA, FileUp>>, <<FileUp, FileA>>},
     sx \in SourceStates, sa \in {"none", "file"},
     bs \in {"none", "dir"}, tx \in TargetStates, ta \in {"none", "file"} :
    LET kind == repository_path \o <<KindDir(type)>>
        root == kind \o <<TemplateName>>
        f1 == Put(Put(Skeleton, root, DirEntry), root \o FileA, SourceEntry(sa, FileA))
        f2 == Put(f1, kind \o <<"x">>,
                  IF sx = "file" THEN FileEntry("content of x", "0644") ELSE SourceEntry(sx, FileA))
        f3 == PutTarget(f2, <<"x">>, tx, kind \o <<"x">>, FileUp)
        f4 == IF bs = "dir"
              THEN Put(Put(f3, BaseOf(type), DirEntry), BaseOf(type) \o FileA, TargetEntry(ta, <<>>))
              ELSE f3
    IN /\ bs = "none" => ta = "none"
       /\ validate_files(files)
       /\ tpl = [name |-> TemplateName, type |-> type, files |-> files]
       /\ fs = f4
       /\ pre = fs
       /\ call = NoCall
       /\ ret = NoRet
       /\ ncalls = 0
       /\ InitIdle

SpecContainment == InitContainment /\ [][Next]_vars

(***************************************************************************)
(* Two install_template(force=True) calls for the same template and home,  *)
(* their file system calls interleaved                                     *)
(***************************************************************************)
\* both calls are about to plan their links; procs[p] is the position of
\* call p: the links planned, the one in hand, the next file system call,
\* the links created and the success flag
InitRace ==
  \E files \in FileLists, bs \in {"none", "dir"},
     ta \in TargetStates, td \in ParentStates, tb \in TargetStates :
    /\ bs # "dir" => ta = "none" /\ td = "none"
    /\ td \notin {"dir", "link_dir"} => tb = "none"
    /\ PlainA("file", ta) \/ PlainB("dir", "file", td, tb)
    /\ Len(files) = 1 => PlainB("dir", "file", td, tb)
    /\ tpl = [name |-> TemplateName, type |-> "dotfiles", files |-> files]
    /\ fs = InitTree("dotfiles", "dir", "none", "file", "dir", "file", bs, ta, td, tb)
    /\ pre = fs
    /\ call = Call("install_template", TRUE, FALSE)
    /\ ret = NoRet
    /\ ncalls = 0
    /\ repo = NoRepository /\ clock = 0 /\ log = <<>> /\ copied = <<>>
    /\ procs = [p \in {1, 2} |->
                  [pc |-> "plan", links |-> <<>>, k |-> 0, items |-> <<>>, success |-> TRUE]]

\* one file system call of one of the two install_template calls
InstallStep ==
  \E p \in DOMAIN procs :
    LET me == procs[p]
        Next_link(q) ==
          IF q.k < Len(q.links) THEN [q EXCEPT !.k = q.k + 1, !.pc = "can_create_symlink"]
          ELSE [q EXCEPT !.pc = "returned"]
        Stepped(r) ==
          /\ fs' = r.fs
          /\ procs' = [procs EXCEPT ![p] =
                         CASE r.pc = "True" ->
                                Next_link([me EXCEPT !.items = Append(me.items, me.links[me.k])])
                           [] r.pc = "False" -> Next_link([me EXCEPT !.success = FALSE])
                           [] OTHER -> [me EXCEPT !.pc = r.pc]]
    IN /\ me.pc # "returned"
       /\ IF me.pc = "plan"
          THEN /\ procs' = [procs EXCEPT ![p] =
                              Next_link([me EXCEPT !.links =
                                PlanLinks(fs, repository_path \o <<"dotfiles", tpl.name>>,
                                          tpl.name, tpl.files)])]
               /\ fs' = fs
          ELSE Stepped(_create_single_symlink_step(fs, me.links[me.k], me.pc))
       /\ UNCHANGED <<tpl, pre, call, ret, ncalls, repo, clock, log, copied>>

SpecRace == InitRace /\ [][InstallStep]_vars

(***************************************************************************)
(* Vocabulary of the properties.  pre is the tree before the last call, fs *)
(* the tree after it, ret what the call gave back.                         *)
(***************************************************************************)
Files == {tpl.files[i] : i \in 1..Len(tpl.files)}
TemplateDir == repository_path \o <<KindDir(tpl.type), tpl.name>>
SourceOf(rel) == TemplateDir \o rel
TargetOf(rel) == BaseOf(tpl.type) \o rel

\* the template files whose source exists, in template.files order
Eligible == SelectSeq(tpl.files, LAMBDA rel : Exists(pre, SourceOf(rel)))
EligibleSet == {rel \in Files : Exists(pre, SourceOf(rel))}

\* the call is one the template-level checks let through
Accepted ==
  /\ \/ call.op = "install_template" /\ tpl.type = "dotfiles"
     \/ call.op = "apply_template" /\ tpl.type = "project"
  /\ Exists(pre, TemplateDir)

RealRun == Accepted /\ ~call.dry_run
DryRun == Accepted /\ call.dry_run

\* the returned records are those of the given files, in that order
ItemsAre(rels) ==
  /\ Len(ret.items) = Len(rels)
  /\ \A i \in 1..Len(rels) :
       /\ ret.items[i].source = SourceOf(rels[i])
       /\ ret.items[i].target = TargetOf(rels[i])

InItems(rel) == \E i \in 1..Len(ret.items) : ret.items[i].target = TargetOf(rel)

\* the entry p named before the call, and all below it, is as it was
Untouched(p) ==
  LET r == LStat(pre, p)
  IN r.ok => \A q \in Paths : IsUnder(q, r.p) => fs[q] = pre[q]

\* the kind of the entry at p itself
KindAt(f, p) == EntryAt(f, LStat(f, p)).k

\* after the call p is a symbolic link that resolves to src
LinksTo(f, p, src) == IsSymlink(f, p) /\ Exists(f, p) /\ Resolve(f, p) = src

(***************************************************************************)
(* C1  Dry-run purity: install_template(dry_run) and apply_template(dry_run)*)
(* leave the whole tree as it was (no target, no parent directory, no      *)
(* target directory is made) and return success with one record per        *)
(* template file whose source exists, for both values of force.            *)
(***************************************************************************)
C1_DryRunPurity ==
  DryRun => /\ fs = pre
            /\ ret.status = "returned"
            /\ ret.success
            /\ ItemsAre(Eligible)

\* what does hold of every dry run, also of the one that raises: the tree is
\* as it was
C1_DryRunFrame == call.dry_run => fs = pre

\* a dry run of apply_template over a source that is not a readable file
C1_DryRunRaises ==
  /\ DryRun /\ call.op = "apply_template"
  /\ ret.status = "raised" /\ ret.exc = "RuntimeError"

(***************************************************************************)
(* C2  Without force install_template and create_symlink never remove or   *)
(* replace an entry that is already at a planned target, whatever its kind *)
(* (file, directory, live or dangling link); when that entry is a file or  *)
(* a directory the link is reported as failed: it is not in the returned   *)
(* list and success is false.                                              *)
(***************************************************************************)
C2_InstallKeeps ==
  (Accepted /\ call.op = "install_template" /\ ~call.force) =>
    \A rel \in EligibleSet :
      LExists(pre, TargetOf(rel)) =>
        /\ Untouched(TargetOf(rel))
        /\ (~call.dry_run /\ EntryAt(pre, LStat(pre, TargetOf(rel))).k \in {"file", "dir"})
             => (~InItems(rel) /\ ~ret.success)

C2_CreateSymlinkKeeps ==
  (call.op = "create_symlink" /\ ~call.force /\ LExists(pre, call.target)) =>
    /\ Untouched(call.target)
    /\ (EntryAt(pre, LStat(pre, call.target)).k \in {"file", "dir"}) => ~ret.success

\* C2: without force neither install_template nor create_symlink removes
\* or replaces what is at a planned target, and a file or a directory there
\* makes the link fail
C2_NoForceKeepsTargets == C2_InstallKeeps /\ C2_CreateSymlinkKeeps

\* a real install without force met a regular file at a planned target,
\* left it and reported failure
C2_Witness ==
  /\ RealRun /\ call.op = "install_template" /\ ~call.force
  /\ \E rel \in EligibleSet :
       /\ EntryAt(pre, LStat(pre, TargetOf(rel))) = FileEntry(OldData, OldMode)
       /\ EntryAt(fs, LStat(fs, TargetOf(rel))) = FileEntry(OldData, OldMode)
       /\ ~InItems(rel) /\ ~ret.success

\* a real install without force met a dangling link at a planned target
\* and left it
C2_WitnessDanglingLink ==
  /\ RealRun /\ call.op = "install_template" /\ ~call.force
  /\ \E rel \in EligibleSet :
       /\ EntryAt(pre, LStat(pre, TargetOf(rel))) = LinkEntry(ExtGone)
       /\ EntryAt(fs, LStat(fs, TargetOf(rel))) = LinkEntry(ExtGone)
       /\ ~InItems(rel)

(***************************************************************************)
(* C3  Force semantics: in a real install with force, a planned target     *)
(* that was a regular file, a directory or a link to an existing path is a *)
(* link resolving to the source afterwards and is reported as created; a   *)
(* second forced install over the template's own links succeeds and keeps  *)
(* the (source, target) mapping.                                           *)
(***************************************************************************)
OwnLinksInstalled ==
  \A rel \in EligibleSet : LinksTo(pre, TargetOf(rel), SourceOf(rel))

\* nothing is left of what was below p
RemovedBelow(p) == \A q \in Paths : (IsUnder(q, p) /\ q # p) => fs[q] = NoEntry

\* C3: a forced real install replaces a file, a directory (with all below
\* it) and a link to an existing path by a link that resolves to the source
\* and reports it; over the template's own links it succeeds with the same
\* mapping
C3_ForceReplaces ==
  (RealRun /\ call.op = "install_template" /\ call.force) =>
    /\ \A rel \in EligibleSet :
         Exists(pre, TargetOf(rel)) =>
           /\ LinksTo(fs, TargetOf(rel), SourceOf(rel))
           /\ EntryAt(fs, LStat(fs, TargetOf(rel))) = LinkEntry(SourceOf(rel))
           /\ KindAt(pre, TargetOf(rel)) = "dir" => RemovedBelow(LStat(pre, TargetOf(rel)).p)
           /\ InItems(rel)
    /\ OwnLinksInstalled =>
         (/\ ret.success
          /\ ItemsAre(Eligible)
          /\ \A rel \in EligibleSet : LinksTo(fs, TargetOf(rel), SourceOf(rel)))

\* a forced install replaced a non-empty directory
C3_Witness ==
  /\ RealRun /\ call.op = "install_template" /\ call.force
  /\ \E rel \in EligibleSet :
       /\ IsDir(pre, TargetOf(rel)) /\ ~IsSymlink(pre, TargetOf(rel))
       /\ \E q \in Paths : IsUnder(q, TargetOf(rel)) /\ pre[q].k = "file"
       /\ LinksTo(fs, TargetOf(rel), SourceOf(rel))
       /\ InItems(rel)

\* a forced install ran over the template's own links
C3_WitnessSecondInstall ==
  /\ RealRun /\ call.op = "install_template" /\ call.force
  /\ EligibleSet # {} /\ OwnLinksInstalled /\ ret.success

(***************************************************************************)
(* C4  Bookkeeping of a real run that passed the template-level checks:    *)
(* the returned list holds exactly the items that were created or copied,  *)
(* in template.files order; success is true iff it holds every file whose  *)
(* source exists; a file whose source is missing is not in the result,     *)
(* nothing is made at its target and it does not make success false.       *)
(***************************************************************************)
SameAt(p) == EntryAt(fs, LStat(fs, p)) = EntryAt(pre, LStat(pre, p))

\* this call made the link of rel
Created(rel) ==
  /\ IsSymlink(fs, TargetOf(rel))
  /\ EntryAt(fs, LStat(fs, TargetOf(rel))).dest = SourceOf(rel)
  /\ call.force \/ ~LExists(pre, TargetOf(rel))

\* this call wrote the source of rel to its target
Copied(rel) ==
  LET t == EntryAt(fs, Stat(fs, TargetOf(rel)))
      u == EntryAt(fs, Stat(fs, SourceOf(rel)))
  IN /\ t.k = "file" /\ u.k = "file"
     /\ t.data = u.data /\ t.meta = u.meta
     /\ Stat(fs, TargetOf(rel)).p # Stat(fs, SourceOf(rel)).p
     /\ call.force \/ ~Exists(pre, TargetOf(rel))

Materialized(rel) ==
  IF call.op = "install_template" THEN Created(rel) ELSE Copied(rel)

\* C4 as claimed: the returned list is the list of the eligible files that
\* were created or copied, success says that all were, a missing source
\* leaves no trace
C4_ResultBookkeeping ==
  (RealRun /\ ret.status = "returned") =>
    /\ ItemsAre(SelectSeq(Eligible, Materialized))
    /\ ret.success <=> (\A rel \in EligibleSet : InItems(rel))
    /\ \A rel \in Files \ EligibleSet : ~InItems(rel) /\ SameAt(TargetOf(rel))

\* the part of C4 that holds: the bookkeeping of install_template, and of
\* apply_template when no planned target is a directory
C4_BookkeepingButDirectories ==
  (/\ RealRun /\ ret.status = "returned"
   /\ call.op = "apply_template" => \A rel \in EligibleSet : ~IsDir(pre, TargetOf(rel)))
    => /\ ItemsAre(SelectSeq(Eligible, Materialized))
       /\ ret.success <=> (\A rel \in EligibleSet : InItems(rel))
       /\ \A rel \in Files \ EligibleSet : ~InItems(rel) /\ SameAt(TargetOf(rel))

(***************************************************************************)
(* C5  Without force a real apply_template never changes a file that is    *)
(* already at a planned target: it is left as it was, no record for it is  *)
(* returned, success is false; the files whose targets do not exist are    *)
(* still copied.                                                           *)
(***************************************************************************)
C5_Refused(rel) ==
  /\ Untouched(TargetOf(rel))
  /\ EntryAt(fs, Stat(fs, TargetOf(rel))) = EntryAt(pre, Stat(pre, TargetOf(rel)))
  /\ ~InItems(rel)
  /\ ~ret.success

C5_Scope == RealRun /\ call.op = "apply_template" /\ ~call.force /\ ret.status = "returned"

\* C5 as claimed: existing targets are kept and refused, and every file
\* whose target does not exist is copied
C5_NoForceKeepsAndCopiesRest ==
  C5_Scope =>
    \A rel \in EligibleSet :
      /\ Exists(pre, TargetOf(rel)) => C5_Refused(rel)
      /\ ~Exists(pre, TargetOf(rel)) => (InItems(rel) /\ Copied(rel))

\* every component of the path to p that is there is a directory, or a link to one
ParentsAreDirs(f, p) ==
  \A n \in 1..(Len(p) - 1) : LExists(f, SubSeq(p, 1, n)) => IsDir(f, SubSeq(p, 1, n))

\* the copy of rel meets no file system error: the source is a regular
\* file and the path to the target can be made
CopyCanProceed(rel) ==
  /\ IsFile(pre, SourceOf(rel))
  /\ ParentsAreDirs(pre, TargetOf(rel))

\* C5 as amended: existing targets are kept and refused; a file whose
\* target does not exist is copied unless its own copy meets a file system
\* error, and then it has no record and success is false
C5_NoForceKeeps ==
  C5_Scope =>
    \A rel \in EligibleSet :
      /\ Exists(pre, TargetOf(rel)) => C5_Refused(rel)
      /\ (~Exists(pre, TargetOf(rel)) /\ CopyCanProceed(rel)) => (InItems(rel) /\ Copied(rel))
      /\ (~Exists(pre, TargetOf(rel)) /\ ~CopyCanProceed(rel)) => (~InItems(rel) /\ ~ret.success)

\* one target was kept and the other file was copied in the same call
C5_Witness ==
  /\ C5_Scope
  /\ \E r1, r2 \in EligibleSet :
       /\ IsFile(pre, TargetOf(r1)) /\ C5_Refused(r1)
       /\ ~Exists(pre, TargetOf(r2)) /\ InItems(r2) /\ Copied(r2)

(***************************************************************************)
(* C6  With force a real apply_template overwrites every planned target    *)
(* that is a regular file: afterwards the target holds the content of its  *)
(* source and a record for it is returned, and success is true, when no    *)
(* file system error occurs.                                               *)
(***************************************************************************)
C6_Scope == RealRun /\ call.op = "apply_template" /\ call.force

\* C6: a forced real apply_template leaves the source's content in every
\* planned target that was a regular file and returns its record; it
\* succeeds when that is so for every planned file
C6_ForceOverwrites ==
  C6_Scope =>
    /\ \A rel \in EligibleSet :
         (KindAt(pre, TargetOf(rel)) = "file" /\ IsFile(pre, SourceOf(rel))) =>
           /\ ret.status = "returned"
           /\ EntryAt(fs, LStat(fs, TargetOf(rel)))
                = FileEntry(EntryAt(pre, Stat(pre, SourceOf(rel))).data,
                            EntryAt(pre, Stat(pre, SourceOf(rel))).meta)
           /\ InItems(rel)
    /\ (/\ EligibleSet # {}
        /\ \A rel \in EligibleSet :
             KindAt(pre, TargetOf(rel)) = "file" /\ IsFile(pre, SourceOf(rel)))
         => (ret.status = "returned" /\ ret.success)

\* a forced apply overwrote an old file
C6_Witness ==
  /\ C6_Scope /\ ret.status = "returned" /\ ret.success
  /\ \E rel \in EligibleSet :
       /\ EntryAt(pre, LStat(pre, TargetOf(rel))) = FileEntry(OldData, OldMode)
       /\ EntryAt(fs, LStat(fs, TargetOf(rel))) = FileEntry(DataOf(rel), ModeOf(rel))

(***************************************************************************)
(* C7  Copy checksum correctness: for every record a real apply_template   *)
(* returns, whatever was at the target before (a directory included), the  *)
(* target is afterwards a regular file with the content of the source and  *)
(* verify_integrity() of the record is true.                               *)
(***************************************************************************)
\* C7 as claimed: every returned record names a regular file with the
\* content of its source and verifies
C7_RecordsVerify ==
  (RealRun /\ call.op = "apply_template" /\ ret.status = "returned") =>
    \A i \in 1..Len(ret.items) :
      /\ IsFile(fs, ret.items[i].target)
      /\ EntryAt(fs, Stat(fs, ret.items[i].target)).data
           = EntryAt(fs, Stat(fs, ret.items[i].source)).data
      /\ verify_integrity(fs, ret.items[i])

\* the part of C7 that holds: the records of targets that were no directory
C7_RecordsVerifyButDirectories ==
  (RealRun /\ call.op = "apply_template" /\ ret.status = "returned") =>
    \A i \in 1..Len(ret.items) :
      ~IsDir(pre, ret.items[i].target) =>
        /\ IsFile(fs, ret.items[i].target)
        /\ EntryAt(fs, Stat(fs, ret.items[i].target)).data
             = EntryAt(fs, Stat(fs, ret.items[i].source)).data
        /\ verify_integrity(fs, ret.items[i])

(***************************************************************************)
(* C8  Conflict detection: check_file_conflicts(T, D) returns exactly the  *)
(* pairs (repo/projects/T.name/f, D/f), f in T.files, of which both the    *)
(* source and the target exist, so every pair is in the plan of            *)
(* apply_template and a file whose target does not exist is never          *)
(* reported; it never raises (the list is empty for a template that is not *)
(* a project template and for a missing template directory) and it changes *)
(* nothing.                                                                *)
(***************************************************************************)
ProjectSourceOf(rel) == repository_path \o <<"projects", tpl.name>> \o rel
ProjectTargetOf(rel) == target_directory \o rel

Conflicting ==
  SelectSeq(tpl.files,
            LAMBDA rel : Exists(pre, ProjectSourceOf(rel)) /\ Exists(pre, ProjectTargetOf(rel)))

\* C8: the returned list is the list of the declared files with both ends
\* present, in order; empty for other templates; nothing changes
C8_ConflictsExact ==
  call.op = "check_file_conflicts" =>
    /\ ret.status = "returned"
    /\ fs = pre
    /\ tpl.type = "project" =>
         /\ Len(ret.items) = Len(Conflicting)
         /\ \A i \in 1..Len(Conflicting) :
              ret.items[i] = <<ProjectSourceOf(Conflicting[i]), ProjectTargetOf(Conflicting[i])>>
         /\ \A i \in 1..Len(ret.items) :
              \E rel \in EligibleSet : ret.items[i] = <<SourceOf(rel), TargetOf(rel)>>
         /\ \A rel \in Files :
              ~Exists(pre, TargetOf(rel)) =>
                 \A i \in 1..Len(ret.items) : ret.items[i][2] # TargetOf(rel)
    /\ (tpl.type # "project" \/ ~Exists(pre, TemplateDir)) => ret.items = <<>>

\* one file of the template is reported and the other, whose source is
\* there and whose target is not, is not
C8_Witness ==
  /\ call.op = "check_file_conflicts" /\ tpl.type = "project"
  /\ Len(ret.items) = 1
  /\ \E rel \in EligibleSet : ~Exists(pre, TargetOf(rel))

\* the list is empty because the template directory is missing
C8_WitnessMissingDirectory ==
  /\ call.op = "check_file_conflicts" /\ tpl.type = "project"
  /\ ~Exists(pre, TemplateDir) /\ ret.items = <<>>
  /\ \E rel \in Files : Exists(pre, TargetOf(rel))

(***************************************************************************)
(* C9  Template-level rejection before any change: install_template of a   *)
(* template that is not a dotfiles template, apply_template of one that is *)
(* not a project template, and either with a missing template directory,   *)
(* raise for every force and dry_run, and the tree is as it was; apply     *)
(* does not make the target directory.                                     *)
(***************************************************************************)
WrongKind ==
  \/ call.op = "install_template" /\ tpl.type # "dotfiles"
  \/ call.op = "apply_template" /\ tpl.type # "project"

MissingTemplateDir ==
  /\ \/ call.op = "install_template" /\ tpl.type = "dotfiles"
     \/ call.op = "apply_template" /\ tpl.type = "project"
  /\ ~Exists(pre, TemplateDir)

\* C9: a call of the wrong kind raises ValueError, a call over a missing
\* template directory raises FileNotFoundError, and the tree is as it was
C9_RejectedBeforeChange ==
  /\ WrongKind => (ret.status = "raised" /\ ret.exc = "ValueError" /\ fs = pre)
  /\ MissingTemplateDir => (ret.status = "raised" /\ ret.exc = "FileNotFoundError" /\ fs = pre)

\* a real forced apply_template of a dotfiles template was rejected and
\* the target directory, absent before, is absent still
C9_Witness ==
  /\ call.op = "apply_template" /\ WrongKind /\ call.force /\ ~call.dry_run
  /\ ret.status = "raised"
  /\ ~LExists(pre, target_directory) /\ ~LExists(fs, target_directory)

\* a real install_template with a missing template directory was rejected
C9_WitnessMissingDirectory ==
  /\ call.op = "install_template" /\ MissingTemplateDir /\ ~call.dry_run
  /\ ret.status = "raised"

(***************************************************************************)
(* C10 Link classification completeness: the status command gives every    *)
(* expected link of a dotfiles template exactly one of ok (the target is a *)
(* symbolic link that resolves to the source), wrong_target (a symbolic    *)
(* link that resolves elsewhere, the place recorded), not_symlink (the     *)
(* target is there and is no symbolic link), missing (the target is not    *)
(* there), and changes nothing.                                            *)
(***************************************************************************)
StatusOf(rel) ==
  IF ~Exists(pre, TargetOf(rel)) THEN "missing"
  ELSE IF ~IsSymlink(pre, TargetOf(rel)) THEN "not_symlink"
  ELSE IF Resolve(pre, TargetOf(rel)) = SourceOf(rel) THEN "ok"
  ELSE "wrong_target"

\* C10 as claimed: the command ends well and reports for every expected
\* link the status its target calls for, and changes nothing
C10_EveryLinkClassified ==
  (call.op = "status" /\ tpl.type = "dotfiles") =>
    /\ fs = pre
    /\ ret.code = 0
    /\ Len(ret.items) = Len(tpl.files)
    /\ \A i \in 1..Len(ret.items) :
         /\ ret.items[i].target = TargetOf(tpl.files[i])
         /\ ret.items[i].source = SourceOf(tpl.files[i])
         /\ ret.items[i].status = StatusOf(tpl.files[i])
         /\ ret.items[i].status = "wrong_target" =>
              ret.items[i].actual_source = Resolve(pre, TargetOf(tpl.files[i]))

\* the part of C10 that holds: the command changes nothing
C10_StatusChangesNothing == call.op = "status" => fs = pre


(***************************************************************************)
(* Claim vocabulary of discovery                                           *)
(***************************************************************************)
Scans == {i \in 1..Len(log) : log[i].op = "discover_templates"}

\* a template without the time of its discovery
Undated(t) ==
  [name |-> t.name, type |-> t.type, description |-> t.description, files |-> t.files,
   install_script |-> t.install_script, metadata |-> t.metadata,
   template_path |-> t.template_path]

\* the set of templates a call returned, each without discovered_at
Catalog(result) == {Undated(result.templates[k]) : k \in 1..Len(result.templates)}

(***************************************************************************)
(* C11  Idempotence of discovery: a discover_templates call leaves the     *)
(* repository tree as it is, and it returns the same set of templates,     *)
(* equal in every field but discovered_at, as every earlier call that read *)
(* the same tree.                                                          *)
(***************************************************************************)
C11_DiscoveryIdempotent ==
  [][(Len(log') > Len(log) /\ log'[Len(log')].op = "discover_templates") =>
       /\ repo' = repo
       /\ \A i \in Scans :
            log[i].repo = repo =>
              /\ log'[Len(log')].result.status = log[i].result.status
              /\ Catalog(log'[Len(log')].result) = Catalog(log[i].result)]_vars

\* two scans of one repository of three templates, made at different times
C11_Witness ==
  /\ Len(log) = 2
  /\ Scans = {1, 2}
  /\ log[1].repo = log[2].repo
  /\ Len(log[2].result.templates) = 3
  /\ log[1].result.templates[1].discovered_at # log[2].result.templates[1].discovered_at


\* the templates the i-th call returned
Returned_templates(i) == {log[i].result.templates[k] : k \in 1..Len(log[i].result.templates)}

\* the directory listing a template was made from
BaseOfKind(tree, type) == IF type = "dotfiles" THEN tree.dotfiles ELSE tree.projects
DirOf(tree, t) ==
  LET Find(items) == items[CHOOSE k \in 1..Len(items) : items[k].name = t.name]
  IN Find(BaseOfKind(tree, t.type).items)

\* under the path of a template there is a directory of its name
FoundUnder(tree, t, type, base) ==
  /\ t.type = type
  /\ t.template_path = repository_path \o <<base, t.name>>
  /\ \E k \in 1..Len(BaseOfKind(tree, type).items) :
       BaseOfKind(tree, type).items[k].name = t.name

\* the eligible files of a template directory: regular files (a symbolic
\* link to a regular file is one for stat) named neither install.sh nor
\* metadata.toml
EligibleFiles(dir) ==
  {dir.entries[k].rel : k \in {j \in 1..Len(dir.entries) :
      /\ dir.entries[j].k \in {"file", "link_file"}
      /\ Name(dir.entries[j].rel) \notin {"install.sh", "metadata.toml"}}}

(***************************************************************************)
(* C12  Every template discover_templates returns lists, once each and     *)
(* relative to the template directory, exactly the regular files found at  *)
(* any depth under that directory whose name is neither install.sh nor     *)
(* metadata.toml; the list is not empty; the kind is dotfiles for a        *)
(* directory under dotfiles/ and project for one under projects/.          *)
(***************************************************************************)
C12_FilesExact ==
  \A i \in Scans : \A t \in Returned_templates(i) :
    /\ \/ FoundUnder(log[i].repo, t, "dotfiles", "dotfiles")
       \/ FoundUnder(log[i].repo, t, "project", "projects")
    /\ t.files # <<>>
    /\ {t.files[k] : k \in 1..Len(t.files)} = EligibleFiles(DirOf(log[i].repo, t))
    /\ Cardinality({t.files[k] : k \in 1..Len(t.files)}) = Len(t.files)

\* a scan returned the template of a directory that holds two files, one of
\* them nested, two install scripts, two sidecars and a subdirectory
C12_Witness ==
  \E i \in Scans : \E t \in Returned_templates(i) :
    /\ DirOf(log[i].repo, t).entries = FullTemplate.entries
    /\ t.files = <<FileA, FileB>>
    /\ t.install_script # <<>>


\* the templates of one kind that the i-th call returned
OfKind(i, type) == {t \in Returned_templates(i) : t.type = type}

\* a template directory that is valid: a readable directory, named with
\* letters and digits, holding an eligible file, no file named of white
\* space and no sidecar with an empty description
ValidDirectory(dir) ==
  /\ dir.k = "dir"
  /\ dir.name \in {"T", "U"}
  /\ EligibleFiles(dir) # {}
  /\ <<" ">> \notin EligibleFiles(dir)
  /\ dir.sidecar # "description = ''"

\* every valid template directory of a base directory is among the
\* templates returned
AllValidAppear(i, base, type) ==
  \A k \in 1..Len(base.items) :
    ValidDirectory(base.items[k]) =>
      \E t \in OfKind(i, type) : t.name = base.items[k].name

HandledLocally(i) ==
  /\ log[i].result.status = "returned"
  /\ log[i].repo.dotfiles.k = "none" => OfKind(i, "dotfiles") = {}
  /\ log[i].repo.projects.k = "none" => OfKind(i, "project") = {}
  /\ AllValidAppear(i, log[i].repo.dotfiles, "dotfiles")
  /\ AllValidAppear(i, log[i].repo.projects, "project")

(***************************************************************************)
(* C13  discover_templates never raises: a missing dotfiles/ or projects/  *)
(* yields no template of that kind, and whatever the other template        *)
(* directories are (dot-prefixed, without eligible file, badly named, with *)
(* a malformed sidecar, unreadable), every valid template directory is     *)
(* among the templates returned.                                           *)
(***************************************************************************)
C13_NeverRaises == \A i \in Scans : HandledLocally(i)

\* C13 as amended: the same, for the repositories whose root directory can
\* be searched
C13_HandledBelowRoot == \A i \in Scans : log[i].repo.k # "denied" => HandledLocally(i)

\* a valid template directory was found next to one that cannot be read
C13_WitnessBelowRoot ==
  \E i \in Scans :
    /\ Len(log[i].repo.dotfiles.items) = 2
    /\ log[i].repo.dotfiles.items[1].k = "denied"
    /\ OfKind(i, "dotfiles") # {}


\* no two templates of a list have the same name
DistinctNames(ts) ==
  \A k \in 1..Len(ts) : \A l \in 1..Len(ts) : ts[k].name = ts[l].name => k = l

(***************************************************************************)
(* C14  Template names are unique identifiers: whatever the names of the   *)
(* directories under dotfiles/ and under projects/, no two templates       *)
(* returned by one discover_templates call have the same name, so that     *)
(* get_template_by_name without a type filter denotes one template.        *)
(***************************************************************************)
C14_NamesUnique == \A i \in Scans : DistinctNames(log[i].result.templates)

\* names are unique among the templates of one kind
C14_NamesUniquePerKind ==
  \A i \in Scans :
    /\ DistinctNames(SelectSeq(log[i].result.templates, is_dotfiles_template))
    /\ DistinctNames(SelectSeq(log[i].result.templates, is_project_template))

\* get_template_by_name without a type filter returned the project template
\* of a name that a dotfiles template of the repository has too
C14_WitnessShadowed ==
  \E i \in 1..Len(log) :
    /\ log[i].op = "get_template_by_name" /\ log[i].type = "any"
    /\ log[i].result.status = "returned"
    /\ log[i].result.templates[1].type = "project"
    /\ get_template_by_name(log[i].repo, log[i].name, "dotfiles", log[i].at).status = "returned"


\* nothing is at the target of a planned file, and the path to it can be made
TargetFree(rel) == ~LExists(pre, TargetOf(rel)) /\ ParentsAreDirs(pre, TargetOf(rel))

\* install_template(force=false, dry_run=false) into a home directory that
\* holds none of the planned targets
FreshInstall ==
  /\ call.op = "install_template" /\ RealRun /\ ~call.force
  /\ \A rel \in EligibleSet : TargetFree(rel)

\* the returned link i is in place: a symbolic link resolving to its source,
\* below directories, which verify_link accepts and the classification of the
\* status command calls ok
LinkInPlace(i) ==
  /\ LinksTo(fs, ret.items[i].target, ret.items[i].source)
  /\ IsDir(fs, Parent(ret.items[i].target))
  /\ verify_link(fs, ret.items[i])
  /\ ClassifyLink(fs, ret.items[i]).status = "ok"

InstalledAll ==
  /\ ret.status = "returned" /\ ret.success
  /\ ItemsAre(Eligible)
  /\ \A i \in 1..Len(ret.items) : LinkInPlace(i)

(***************************************************************************)
(* C15  Install then status round trip: install_template(force=false,      *)
(* dry_run=false) into a home directory where no planned target exists     *)
(* returns success with every planned link, missing parent directories     *)
(* made; right after it every returned link is a symbolic link resolving   *)
(* to its source, verify_link() is true of it, and the status command      *)
(* reports every link ok.                                                  *)
(***************************************************************************)
C15_InstallStatusRoundTrip ==
  FreshInstall =>
    /\ InstalledAll
    /\ status(fs, tpl).code = 0
    /\ Len(status(fs, tpl).items) = Len(tpl.files)
    /\ \A i \in 1..Len(status(fs, tpl).items) :
         Exists(pre, SourceOf(tpl.files[i])) => status(fs, tpl).items[i].status = "ok"

\* the part of C15 that holds: the links are made and verify
C15_InstallThenVerify == FreshInstall => InstalledAll

\* both files were installed, the nested one below a directory made for it
C15_WitnessNested ==
  /\ FreshInstall
  /\ Len(ret.items) = 2
  /\ ~LExists(pre, Parent(TargetOf(FileB)))
  /\ IsDir(fs, Parent(TargetOf(FileB)))


\* the content of the file at p when the records were verified
ContentAt(p) == EntryAt(pre, Stat(pre, p)).data

\* the target of record i is there with the content that was recorded
TargetAsRecorded(i) ==
  /\ Exists(pre, copied[i].target)
  /\ Sha256(ContentAt(copied[i].target)) = copied[i].checksum

\* source and target of record i are there with equal contents
SourceAsTarget(i) ==
  /\ Exists(pre, copied[i].target) /\ Exists(pre, copied[i].source)
  /\ ContentAt(copied[i].source) = ContentAt(copied[i].target)

\* the first status that applies to record i
DriftStatus(i) ==
  IF ~Exists(pre, copied[i].target) THEN "missing"
  ELSE IF ~TargetAsRecorded(i) THEN "modified"
  ELSE IF Exists(pre, copied[i].source) /\ ~SourceAsTarget(i) THEN "source_changed"
  ELSE "valid"

(***************************************************************************)
(* C16  Drift detection: after a successful copy and any later changes of  *)
(* source and target, verify_integrity() is true exactly when the target   *)
(* exists and its content hashes to the recorded checksum, whatever the    *)
(* source is; verify_source_match() is true exactly when both files exist  *)
(* with equal contents; get_status() is the first that applies of missing, *)
(* modified, source_changed, valid.                                        *)
(***************************************************************************)
C16_DriftDetected ==
  call.op = "get_status" =>
    /\ Len(ret.items) = Len(copied)
    /\ \A i \in 1..Len(copied) :
         /\ ret.items[i].integrity = TargetAsRecorded(i)
         /\ ret.items[i].source_match = SourceAsTarget(i)
         /\ ret.items[i].status = DriftStatus(i)

\* source and target were both given the same new content: the record is
\* modified although source and target match; another record lost its source
\* and is valid
C16_Witness ==
  /\ call.op = "get_status"
  /\ Len(copied) = 2
  /\ \E i \in 1..2 :
       /\ ret.items[i].source_match /\ ~ret.items[i].integrity
       /\ ret.items[i].status = "modified"
       /\ ~Exists(pre, copied[3 - i].source) /\ ret.items[3 - i].status = "valid"


\* the target directory of apply_template is a directory or can be made
TargetDirectoryUsable ==
  call.op = "apply_template" =>
    (~LExists(pre, target_directory) \/ IsDir(pre, target_directory))

(***************************************************************************)
(* C17  Once the template-level checks have passed, install_template and   *)
(* apply_template, real or dry run, never raise because a file system call *)
(* on one planned item fails: the failure is a failure of that item and    *)
(* the call returns normally.                                              *)
(***************************************************************************)
C17_ItemFailuresNeverRaise ==
  (Accepted /\ TargetDirectoryUsable) => ret.status = "returned"

\* the one call that raises over an item: the dry run of apply_template
C17_OnlyApplyDryRunRaises ==
  (Accepted /\ TargetDirectoryUsable /\ ret.status # "returned") =>
    /\ call.op = "apply_template" /\ call.dry_run
    /\ ret.status = "raised" /\ ret.exc = "RuntimeError"
    /\ \E rel \in EligibleSet : ~IsFile(pre, SourceOf(rel))

\* a real run over a path component that is a file returns with that item
\* failed and the other one made
C17_WitnessItemFailure ==
  /\ RealRun /\ ret.status = "returned" /\ ~ret.success
  /\ EligibleSet = {FileA, FileB}
  /\ IsFile(pre, Parent(TargetOf(FileB)))
  /\ InItems(FileA) /\ ~InItems(FileB)


\* a run of the install or of the apply command
CommandRun == call.op \in {"install", "apply"}

\* the template the run asks for is among those discovery finds of the
\* command's kind: a directory of that name holding a regular file
Discoverable ==
  LET dir == repository_path \o <<IF call.op = "install" THEN "dotfiles" ELSE "projects",
                                  call.template_name>>
  IN /\ call.template_name = TemplateName
     /\ IsDir(pre, dir)
     /\ \E rel \in RelFiles : IsFile(pre, dir \o rel)

\* the repository is not to be had: invalid URL, or the synchronisation fails
RepositoryFails == call.env.url = "invalid" \/ (call.env.url = "valid" /\ call.env.sync = "fails")

\* the materializer was called and returned
MaterializerReturned == ret.exc \in {"", "install.sh"}

\* the template has an install script whose prompt or start fails
ScriptFails ==
  /\ call.env.script /\ ~call.no_script /\ ~call.dry_run
  /\ call.env.answer \in {"end of input", "yes, cannot start"}

(***************************************************************************)
(* C18  Exit codes of install and apply: the command exits 0 exactly when  *)
(* the materializer returned success=true, 2 when it returned              *)
(* success=false, 1 when the requested name is not among the discovered    *)
(* templates of the command's kind, 4 when the repository URL is invalid   *)
(* or the clone or sync fails; in the last two cases the file tree is left *)
(* as it was.                                                              *)
(***************************************************************************)
C18_ExitCodes ==
  CommandRun =>
    /\ ret.status = "exit"
    /\ ret.code = 0 <=> (MaterializerReturned /\ ret.success)
    /\ (MaterializerReturned /\ ~ret.success) => ret.code = 2
    /\ RepositoryFails => (ret.code = 4 /\ fs = pre)
    /\ (call.env.url = "valid" /\ ~RepositoryFails /\ ~Discoverable) =>
         (ret.code = 1 /\ fs = pre)

\* C18 as amended: the exit code follows the materializer unless the install
\* script of the template fails at its prompt or cannot be started, and then
\* the command exits 1
C18_ExitCodesButScript ==
  CommandRun =>
    /\ ret.status = "exit"
    /\ ret.code = 0 <=> (MaterializerReturned /\ ret.success /\ ~ScriptFails)
    /\ (MaterializerReturned /\ ~ret.success /\ ~ScriptFails) => ret.code = 2
    /\ (MaterializerReturned /\ ScriptFails) => ret.code = 1
    /\ RepositoryFails => (ret.code = 4 /\ fs = pre)
    /\ (call.env.url = "valid" /\ ~RepositoryFails /\ ~Discoverable) =>
         (ret.code = 1 /\ fs = pre)

\* the install command made one link, was refused the other, and exited 2
C18_Witness ==
  /\ call.op = "install" /\ ret.code = 2
  /\ MaterializerReturned /\ Len(ret.items) = 1
  /\ fs # pre

\* the links were made and the command exited 1 at the prompt of install.sh
C18_WitnessScript ==
  /\ call.op = "install" /\ ret.code = 1
  /\ MaterializerReturned /\ ret.success /\ ret.items # <<>>
  /\ ScriptFails

\* the source of rel is one the call can materialize: any existing entry for
\* a link, a file for a copy
SourceUsable(rel) == call.op = "apply_template" => IsFile(pre, SourceOf(rel))

\* an item before rel in the plan failed
EarlierFailed(rel) ==
  \E i, j \in 1..Len(Eligible) :
    i < j /\ Eligible[j] = rel /\ ~InItems(Eligible[i])

(***************************************************************************)
(* C19  Partial failure does not abort: a real install_template or         *)
(* apply_template call goes through its whole plan and returns; the        *)
(* returned items are items of the plan, each once, in plan order, and an  *)
(* item whose own target is free is created whether or not an earlier item *)
(* of the plan failed.                                                     *)
(***************************************************************************)
C19_PartialFailureContinues ==
  (RealRun /\ TargetDirectoryUsable) =>
    /\ ret.status = "returned"
    /\ ItemsAre(SelectSeq(Eligible, InItems))
    /\ \A rel \in EligibleSet :
         (TargetFree(rel) /\ SourceUsable(rel)) => (InItems(rel) /\ Materialized(rel))

\* the first item of the plan failed and the second one, whose target was
\* free, was made
C19_Witness ==
  /\ RealRun /\ ret.status = "returned" /\ ~ret.success
  /\ Len(Eligible) = 2
  /\ ~InItems(Eligible[1])
  /\ EarlierFailed(Eligible[2])
  /\ TargetFree(Eligible[2]) /\ SourceUsable(Eligible[2])
  /\ InItems(Eligible[2]) /\ Materialized(Eligible[2])

\* the same for a copy
C19_WitnessCopy == C19_Witness /\ call.op = "apply_template"

\* before the call the target of rel is a symbolic link whose destination
\* does not exist
BrokenAt(rel) == IsSymlink(pre, TargetOf(rel)) /\ ~Exists(pre, TargetOf(rel))

ForcedInstall == call.op = "install_template" /\ RealRun /\ call.force

(***************************************************************************)
(* C20  With force=true, install_template over a broken symbolic link (a   *)
(* link at the target whose destination does not exist) replaces it with a *)
(* symbolic link resolving to the template's source and reports the link   *)
(* as created.                                                             *)
(***************************************************************************)
C20_ForceReplacesBroken ==
  ForcedInstall =>
    \A rel \in EligibleSet :
      BrokenAt(rel) => (LinksTo(fs, TargetOf(rel), SourceOf(rel)) /\ InItems(rel))

\* what the forced install does with a broken link: it stays as it was, the
\* item is left out of the returned list and success is false
C20_BrokenLinkKept ==
  ForcedInstall =>
    \A rel \in EligibleSet :
      BrokenAt(rel) => (SameAt(TargetOf(rel)) /\ ~InItems(rel) /\ ~ret.success)

C20_WitnessBroken ==
  ForcedInstall /\ \E rel \in EligibleSet : BrokenAt(rel) /\ ~InItems(rel)

\* create_symlink was called with a source that does not exist
MissingSource == call.op = "create_symlink" /\ ~Exists(pre, call.source)

(***************************************************************************)
(* C21  create_symlink(source, target, force) returns False and creates no *)
(* symbolic link at target whenever source does not exist, for both values *)
(* of force and every state of target before the call; a link to a source  *)
(* that does not exist is never produced.                                  *)
(***************************************************************************)
C21_NoLinkToMissingSource ==
  MissingSource =>
    /\ ret.status = "returned" /\ ~ret.success
    /\ ~(IsSymlink(fs, call.target) /\ fs[call.target] # pre[call.target])

\* what holds: without force the call fails and the tree is as it was
C21_UnforcedRefuses ==
  (MissingSource /\ ~call.force) =>
    (ret.status = "returned" /\ ~ret.success /\ fs = pre)

\* forced, the call over a missing source makes a dangling link and
\* returns True
C21_WitnessDangling ==
  /\ MissingSource /\ call.force
  /\ ret.success
  /\ IsSymlink(fs, call.target) /\ ~Exists(fs, call.target)

RemoveCall == call.op = "remove_template_links" /\ tpl.type = "dotfiles"

\* before the call the entry at home/rel is a symbolic link that resolves to
\* the template's source of rel
OwnLink(rel) == LinksTo(pre, TargetOf(rel), SourceOf(rel))

\* nothing but the entries at the targets of the given files has changed
OnlyRemoved(rels) ==
  \A q \in Paths :
    fs[q] # pre[q] =>
      \E rel \in rels : /\ LStat(pre, TargetOf(rel)).ok
                        /\ q = LStat(pre, TargetOf(rel)).p
                        /\ fs[q] = NoEntry

(***************************************************************************)
(* C22  remove_template_links removes only the symbolic links the template *)
(* created: a real run deletes the entry at home/f, f in template.files,   *)
(* only when it is a symbolic link resolving to the template's source of   *)
(* f; files, directories and links pointing elsewhere stay; the returned   *)
(* count is the number of entries deleted; a dry run deletes nothing and   *)
(* returns the same count.                                                 *)
(***************************************************************************)
C22_RemovesOnlyOwnLinks ==
  RemoveCall =>
    /\ ret.status = "returned"
    /\ Len(ret.items) = Cardinality({rel \in Files : OwnLink(rel)})
    /\ IF call.dry_run THEN fs = pre
       ELSE /\ OnlyRemoved({rel \in Files : OwnLink(rel)})
            /\ \A rel \in Files : OwnLink(rel) => ~LExists(fs, TargetOf(rel))

\* what the call does: every symbolic link at a target goes, wherever it
\* points; nothing else changes
C22_RemovesEveryLink ==
  RemoveCall =>
    /\ ret.status = "returned" /\ ret.success
    /\ Len(ret.items) = Cardinality({rel \in Files : IsSymlink(pre, TargetOf(rel))})
    /\ IF call.dry_run THEN fs = pre
       ELSE /\ OnlyRemoved({rel \in Files : IsSymlink(pre, TargetOf(rel))})
            /\ \A rel \in Files : IsSymlink(pre, TargetOf(rel)) => ~LExists(fs, TargetOf(rel))

\* a link to a file outside the repository was removed
C22_WitnessForeignLink ==
  /\ RemoveCall /\ ~call.dry_run
  /\ \E rel \in Files :
       /\ IsSymlink(pre, TargetOf(rel)) /\ ~OwnLink(rel)
       /\ ~LExists(fs, TargetOf(rel))

RECURSIVE Normal(_)
\* the location a path denotes when no component is a symbolic link
\* (os.path.normpath)
Normal(p) ==
  IF p = <<>> THEN <<>>
  ELSE IF Name(p) = ".." THEN Parent(Normal(Parent(p)))
  ELSE Append(Normal(Parent(p)), Name(p))

Inside(p) == IsUnder(Normal(p), BaseOf(tpl.type))

\* the targets the last call computed
ComputedTargets ==
  CASE call.op \in {"install_template", "apply_template"} /\ ret.status = "returned" ->
         {ret.items[i].target : i \in 1..Len(ret.items)}
    [] call.op = "check_file_conflicts" -> {ret.items[i][2] : i \in 1..Len(ret.items)}
    [] OTHER -> {}

ExpectedTargets ==
  IF tpl.type # "dotfiles" THEN {}
  ELSE {expected_symlinks_for_template(tpl, tpl.files)[i].target : i \in 1..Len(tpl.files)}

\* every entry the call changed lies in the base directory
ChangesInside == \A q \in Paths : fs[q] # pre[q] => IsUnder(q, BaseOf(tpl.type))

(***************************************************************************)
(* C23  Target containment: for every template that passes validation      *)
(* every target computed by install_template, apply_template,              *)
(* check_file_conflicts and expected_symlinks_for_template denotes a       *)
(* location inside the base directory (home, or the target directory), and *)
(* no call creates, replaces or removes an entry outside it.               *)
(***************************************************************************)
C23_TargetContainment ==
  validate_files(tpl.files) =>
    /\ \A t \in ComputedTargets : Inside(t)
    /\ \A t \in ExpectedTargets : Inside(t)
    /\ ChangesInside

\* what holds: the targets of the files without a ".." component are inside
C23_ContainedButDotDot ==
  \A t \in ComputedTargets \cup ExpectedTargets :
    (\A i \in 1..Len(t) : t[i] # "..") => IsUnder(t, BaseOf(tpl.type))

\* a call has written to x, next to the base directory
C23_WitnessEscape ==
  /\ call.op \in {"install_template", "apply_template"} /\ ret.status = "returned"
  /\ ret.success
  /\ fs[<<"x">>] # pre[<<"x">>]
  /\ \E i \in 1..Len(ret.items) : ~Inside(ret.items[i].target)

OwnScript == target_directory \o <<"install.sh">>

\* apply was run in a target directory that held a file install.sh
ApplyOverOwnScript == call.op = "apply" /\ IsFile(pre, OwnScript)

(***************************************************************************)
(* C24  The script step of the apply command cleans up only what it        *)
(* created: a file install.sh that was in the target directory before the  *)
(* command ran is still there with the same content when the command ends, *)
(* whether or not the script was run and whether or not it succeeded.      *)
(***************************************************************************)
C24_OwnScriptKept == ApplyOverOwnScript => fs[OwnScript] = pre[OwnScript]

\* what holds: the file is kept unless a script was run and succeeded; what
\* is run in that directory is that file, not the template's script
C24_OwnScriptKeptUnlessRun ==
  ApplyOverOwnScript =>
    /\ fs[OwnScript] # pre[OwnScript] =>
         (call.env.answer = "yes" /\ log = <<OwnScript>> /\ fs[OwnScript] = NoEntry)
    /\ log \in {<<>>, <<OwnScript>>}

\* the user's install.sh was run in place of the template's and removed
C24_WitnessOwnScriptRemoved ==
  /\ ApplyOverOwnScript /\ ret.code = 0
  /\ log = <<OwnScript>>
  /\ ~LExists(fs, OwnScript)

\* the files of the project template as discovery lists them, and those of
\* them that check_file_conflicts reports: the target exists
ProjectSource(rel) == repository_path \o <<"projects", TemplateName>> \o rel
WorkTarget(rel) == target_directory \o rel
Listed == {rel \in RelFiles : IsFile(pre, ProjectSource(rel))}
InConflict == {rel \in Listed : Exists(pre, WorkTarget(rel))}

\* apply without --force and --dry-run got as far as its prompt about
\* conflicts, and the user answered it
AskedAboutConflicts ==
  /\ call.op = "apply" /\ ~call.force /\ ~call.dry_run
  /\ call.env.url = "valid" /\ ~RepositoryFails /\ Discoverable
  /\ InConflict # {}
  /\ call.env.confirm \in {"yes", "no"}

\* the file at the target of rel is a copy of its source
CopiedTo(rel) ==
  /\ IsFile(fs, WorkTarget(rel))
  /\ EntryAt(fs, Stat(fs, WorkTarget(rel))).data = EntryAt(pre, Stat(pre, ProjectSource(rel))).data

(***************************************************************************)
(* C25  apply without --force and --dry-run, with at least one conflict    *)
(* detected, exits 2 whatever the user answers to the confirmation prompt: *)
(* when the user declines nothing is written; when the user confirms the   *)
(* files without conflict are copied and no conflicting file is            *)
(* overwritten.                                                            *)
(***************************************************************************)
C25_ConflictsExitTwo ==
  AskedAboutConflicts =>
    /\ ret.code = 2
    /\ call.env.confirm = "no" => fs = pre
    /\ call.env.confirm = "yes" =>
         /\ \A rel \in InConflict : SameAt(WorkTarget(rel))
         /\ \A rel \in Listed \ InConflict : CopiedTo(rel)

\* C25 as amended: the exit code is 1 when the install script's prompt or
\* start fails, and a file without conflict is copied when the directories
\* above its target can be had
C25_ConflictsExitTwoButScript ==
  AskedAboutConflicts =>
    /\ ret.code = IF call.env.confirm = "yes" /\ ScriptFails THEN 1 ELSE 2
    /\ call.env.confirm = "no" => (fs = pre /\ log = <<>>)
    /\ call.env.confirm = "yes" =>
         /\ \A rel \in InConflict : SameAt(WorkTarget(rel))
         /\ \A rel \in Listed \ InConflict :
              ParentsAreDirs(pre, WorkTarget(rel)) => CopiedTo(rel)

\* the user confirmed: the file in conflict was kept, the other one was
\* copied, the command exited 2
C25_WitnessConfirmed ==
  /\ AskedAboutConflicts /\ call.env.confirm = "yes" /\ ret.code = 2
  /\ \E rel \in InConflict : IsFile(pre, WorkTarget(rel)) /\ SameAt(WorkTarget(rel))
  /\ \E rel \in Listed \ InConflict : ~LExists(pre, WorkTarget(rel)) /\ CopiedTo(rel)

\* the user declined
C25_WitnessDeclined ==
  AskedAboutConflicts /\ call.env.confirm = "no" /\ ret.code = 2 /\ fs = pre

\* the user confirmed and the prompt of the install script then met the end
\* of input: exit code 1
C25_WitnessScript ==
  AskedAboutConflicts /\ call.env.confirm = "yes" /\ ScriptFails /\ ret.code = 1

\* install_template(force=false, dry_run=false) over a home directory in
\* which every planned target is a symbolic link resolving to its source
Reinstall ==
  /\ call.op = "install_template" /\ RealRun /\ ~call.force
  /\ EligibleSet # {}
  /\ \A rel \in EligibleSet : LinksTo(pre, TargetOf(rel), SourceOf(rel))

(***************************************************************************)
(* C26  Idempotent materialization without force: install_template(force = *)
(* false, dry_run = false) run on a home directory in which every planned  *)
(* target is already a symbolic link resolving to its source returns       *)
(* success=true with every planned link and leaves those links unchanged.  *)
(***************************************************************************)
C26_ReinstallSucceeds ==
  Reinstall =>
    /\ ret.status = "returned" /\ ret.success
    /\ ItemsAre(Eligible)
    /\ fs = pre

\* what the second install does: the links stay, every one of them is
\* reported as failed
C26_ReinstallRefused ==
  Reinstall =>
    /\ ret.status = "returned" /\ ~ret.success
    /\ ret.items = <<>>
    /\ fs = pre

C26_WitnessReinstall == Reinstall /\ ~ret.success /\ fs = pre

\* both install_template calls have returned
BothReturned == procs # <<>> /\ \A p \in DOMAIN procs : procs[p].pc = "returned"

\* before the calls the target of rel is absent, a regular file, a
\* directory or a live symbolic link, and the directories above it are
\* directories or can be made
RaceStart(rel) ==
  /\ LExists(pre, TargetOf(rel)) => Exists(pre, TargetOf(rel))
  /\ ParentsAreDirs(pre, TargetOf(rel))

(***************************************************************************)
(* C27  Concurrent installs converge: two install_template(force=true)     *)
(* calls for the same template and home, their file system calls           *)
(* (existence check, kind checks, removal, parent creation, link creation) *)
(* interleaved in any way, every planned target being absent, a regular    *)
(* file, a directory or a live symbolic link at the start: once both have  *)
(* returned every planned target is a symbolic link resolving to its       *)
(* source, also when one of the calls reported a failure for it.           *)
(***************************************************************************)
C27_ConcurrentInstallsConverge ==
  (BothReturned /\ \A rel \in EligibleSet : RaceStart(rel)) =>
    \A rel \in EligibleSet : LinksTo(fs, TargetOf(rel), SourceOf(rel))

\* one call lost the race over a directory and reported a failure, the
\* link is there all the same
C27_WitnessOneFailed ==
  /\ BothReturned /\ \A rel \in EligibleSet : RaceStart(rel)
  /\ \E rel \in EligibleSet : IsDir(pre, TargetOf(rel)) /\ ~IsSymlink(pre, TargetOf(rel))
  /\ \E p \in DOMAIN procs : ~procs[p].success
  /\ \E p \in DOMAIN procs : procs[p].success /\ Len(procs[p].items) = Len(tpl.files)
  /\ \A rel \in EligibleSet : LinksTo(fs, TargetOf(rel), SourceOf(rel))

\* both calls reported a failure for the same target and the link is there
C27_WitnessBothFailed ==
  /\ BothReturned /\ \A rel \in EligibleSet : RaceStart(rel)
  /\ \A p \in DOMAIN procs : ~procs[p].success
  /\ \A rel \in EligibleSet : LinksTo(fs, TargetOf(rel), SourceOf(rel))

\* a forced call that creates links: install_template or create_symlink
ForcedLinking ==
  /\ call.force /\ ~call.dry_run /\ ret.status = "returned"
  /\ \/ call.op = "install_template" /\ Accepted
     \/ call.op = "create_symlink"

\* the targets the call was to make
ForcedTargets ==
  IF call.op = "create_symlink" THEN {call.target} ELSE {TargetOf(rel) : rel \in EligibleSet}

\* before the call t is a symbolic link to an existing file or directory
LiveLink(t) == IsSymlink(pre, t) /\ Exists(pre, t)

\* what the link at t pointed to, and all below it, is as it was (the link
\* itself may lie below the directory it points to)
DestinationKept(t) ==
  \A q \in Paths :
    (IsUnder(q, Resolve(pre, t)) /\ q # LStat(pre, t).p) => fs[q] = pre[q]

(***************************************************************************)
(* C28  Force removal never follows a link: when force=true and the target *)
(* is a symbolic link to a directory or to a file, only the link itself is *)
(* removed: the directory or file it pointed to, and everything below it,  *)
(* is as it was after the install.                                         *)
(***************************************************************************)
C28_ForceNeverFollowsLink ==
  ForcedLinking =>
    \A t \in ForcedTargets :
      LiveLink(t) =>
        /\ DestinationKept(t)
        /\ fs[LStat(pre, t).p] # pre[LStat(pre, t).p] => IsSymlink(fs, t)

\* a link to a directory was replaced by the link to the source; the
\* directory is as it was
C28_WitnessLinkToDirectory ==
  /\ ForcedLinking
  /\ \E t \in ForcedTargets :
       /\ LiveLink(t) /\ IsDir(pre, t)
       /\ DestinationKept(t) /\ IsDir(fs, Resolve(pre, t))
       /\ IsSymlink(fs, t) /\ fs[LStat(pre, t).p] # pre[LStat(pre, t).p]

\* the same for a link to a file outside the repository
C28_WitnessLinkToFile ==
  /\ ForcedLinking
  /\ \E t \in ForcedTargets :
       /\ LiveLink(t) /\ Resolve(pre, t) = ExtFile
       /\ fs[ExtFile] = pre[ExtFile]
       /\ LinksTo(fs, t, fs[LStat(pre, t).p].dest) /\ fs[LStat(pre, t).p] # pre[LStat(pre, t).p]


(***************************************************************************)
(* C29  Conflict detection predicts apply: on the same tree, the eligible  *)
(* files for which a real apply_template without force returns no record   *)
(* are exactly the files check_file_conflicts reports; an empty conflict    *)
(* list implies that apply returns success.                                *)
(***************************************************************************)
\* an unforced real apply_template call that returned
UnforcedApply ==
  /\ call.op = "apply_template" /\ ~call.force /\ ~call.dry_run
  /\ ret.status = "returned"

\* what check_file_conflicts returns on the tree the call started from
Predicted == check_file_conflicts(pre, tpl, target_directory)

Reported(rel) ==
  \E i \in 1..Len(Predicted) : Predicted[i] = <<SourceOf(rel), TargetOf(rel)>>

\* C29 as claimed
C29_ConflictsPredictApply ==
  UnforcedApply =>
    /\ \A rel \in EligibleSet : ~InItems(rel) <=> Reported(rel)
    /\ Predicted = <<>> => ret.success

\* C29 with the copies that meet a file system error set apart: a reported
\* file never has a record, a file that is not reported has one unless its
\* own copy cannot proceed, and an empty list implies success when every
\* copy can proceed
C29_ConflictsPredictRefusals ==
  UnforcedApply =>
    /\ \A rel \in EligibleSet :
         /\ Reported(rel) => ~InItems(rel)
         /\ (~Reported(rel) /\ CopyCanProceed(rel)) => InItems(rel)
         /\ (~Reported(rel) /\ ~CopyCanProceed(rel)) => (~InItems(rel) /\ ~ret.success)
    /\ (Predicted = <<>> /\ \A rel \in EligibleSet : CopyCanProceed(rel)) => ret.success

\* one file was reported and has no record, the other was not and has one
C29_WitnessPredicted ==
  /\ UnforcedApply
  /\ \E r1, r2 \in EligibleSet :
       /\ Reported(r1) /\ ~InItems(r1)
       /\ ~Reported(r2) /\ InItems(r2) /\ Copied(r2)

\* nothing was reported, every copy could proceed, and apply succeeded with
\* a record for each of two files
C29_WitnessNoConflict ==
  /\ UnforcedApply /\ Predicted = <<>> /\ ret.success
  /\ Len(ret.items) = 2

\* nothing was reported and apply failed
C29_WitnessUnpredictedFailure ==
  /\ UnforcedApply /\ Predicted = <<>> /\ ~ret.success
  /\ \E rel \in EligibleSet : ~Reported(rel) /\ ~InItems(rel)

(***************************************************************************)
(* C30  In the install and apply commands the install script of the        *)
(* template is executed only when the materializer returned success, the   *)
(* run is not a dry run, no_script is not set, the script file exists at    *)
(* that moment and the user confirmed the prompt; in every other case the  *)
(* script is not run.                                                      *)
(***************************************************************************)
\* the command handed a script to subprocess.run and it started
ScriptRun == CommandRun /\ log # <<>>

\* the script file of the template is in the repository
ScriptExists ==
  IsFile(pre, repository_path \o <<IF call.op = "install" THEN "dotfiles" ELSE "projects",
                                   call.template_name, "install.sh">>)

\* the user answered yes at the prompt of the script
Confirmed == call.env.answer \in {"yes", "yes, script fails"}

\* C30 as claimed
C30_ScriptOnlyAfterSuccess ==
  ScriptRun =>
    /\ MaterializerReturned /\ ret.success
    /\ ~call.dry_run /\ ~call.no_script
    /\ ScriptExists /\ Confirmed

\* what holds: every condition but the success of the materializer, and
\* with all of them and success the script is run
C30_ScriptOnlyWhenAsked ==
  /\ ScriptRun =>
       /\ MaterializerReturned
       /\ ~call.dry_run /\ ~call.no_script
       /\ ScriptExists /\ Confirmed
  /\ (/\ CommandRun /\ MaterializerReturned /\ ret.success
      /\ ~call.dry_run /\ ~call.no_script /\ ScriptExists /\ Confirmed) => log # <<>>

\* the materializer returned success=false, the command ran the script and
\* exited 2
C30_WitnessRunAfterFailure ==
  /\ ScriptRun /\ MaterializerReturned /\ ~ret.success
  /\ ret.code = 2

\* the script was run after a materializer that succeeded
C30_WitnessRunAfterSuccess ==
  /\ ScriptRun /\ MaterializerReturned /\ ret.success /\ ret.items # <<>>
  /\ ret.code = 0

=============================================================================
